---- MODULE Spec2Model ----
(***************************************************************************)
(* Agent-output interpretation and response-synthesis pipeline of the     *)
(* txt2sql agent: SQL safety validation, SQL execution, extraction of     *)
(* structured results from the agent trace, city-name normalisation and   *)
(* the conversational response service with its bounded per-session       *)
(* memory, its prompt classifier and the retrying call of its LLM.         *)
(*                                                                         *)
(* A Python str is modelled as a sequence of one-character strings.  The  *)
(* characters that are not ASCII carry a name: "SUP2" is U+00B2           *)
(* (SUPERSCRIPT TWO), "BULLET" is U+2022 and an accented letter is named  *)
(* after its accent ("i_acute" is U+00ED, "I_ACUTE" is U+00CD); so does   *)
(* U+0060, "BACKTICK".                                                     *)
(***************************************************************************)
EXTENDS Integers, Sequences, FiniteSets, TLC

VARIABLES
    sql_query,       \* validate / execute: the SQL string handed in
    validation,      \* QueryValidationResult of validate_sql_query, or None
    exec_result,     \* QueryResult of execute_sql_query, or None
    exec_pc,         \* where the caller of execute_sql_query stands
    cursor_log,      \* SQL strings handed to cursor.execute, in order
    agent_response,  \* the agent trace (what agent.run returned)
    parsed,          \* what _parse_agent_results returned, or None
    user_query,      \* the question handed to the request entry points
    agent_error,     \* str(e) of what agent.run raised, or None
    schema_error,    \* str(e) of what get_schema_context raised, or None
    request,         \* the request of the caller: its entry point and position
    other_request,   \* a request of a second caller running at the same time
    prompted_query,  \* request.user_query the agent was prompted with
    query_result,    \* QueryResult of process_natural_language_query
    corrected_result,\* QueryResult of the re-execution inside it
    single_result,   \* QueryResult of process_single_query
    query_history,   \* ComprehensiveQueryProcessingService._query_history
    query_count,     \* Text2SQLOrchestrator._query_count
    enable_memory,   \* ConversationalResponseService.enable_memory
    llm_available,   \* whether the conversational LLM answers
    conversation_contexts, \* session id -> ConversationContext, or None
    updates,         \* per session, the interactions recorded since creation
    conv_response,   \* ConversationalResponse of generate_response
    submitted_prompt, \* the prompt generate_response handed to _call_llm
    pending,         \* the generate_response call waiting for the conversational LLM
    llm_error,       \* str(e) of what the LLM request raises, or None
    exchanges,       \* the exchanges the callers of generate_response draw from
    cleared,         \* what clear_conversation_context returned
    summary,         \* what get_conversation_summary returned
    last_call,       \* the last step a caller of the response service took
    prompt_query,    \* determine_prompt_type: the question
    prompt_has_error,\* determine_prompt_type: has_error
    prompt_type,     \* what determine_prompt_type returned, or None
    fixed_once,      \* _fix_case_sensitivity_issues(sql_query)
    fixed_twice,     \* _fix_case_sensitivity_issues of that
    max_retries,     \* ConversationalConfig.max_retries
    attempt,         \* _call_llm: the loop variable
    llm_pc,          \* _call_llm: where the call stands
    llm_log,         \* _call_llm: the requests made and the waits, in order
    llm_result,      \* _call_llm: what the call returned or raised
    context_objects, \* concurrent calls: the ConversationContext objects, by reference
    list_objects,    \* concurrent calls: the list and dict objects, by reference
    context_refs,    \* concurrent calls: self.conversation_contexts, session id to reference
    calls            \* concurrent calls: per thread, the call and where it stands

validateVars == <<sql_query, validation, exec_result, exec_pc, cursor_log>>
parseVars == <<agent_response, parsed>>
processVars == <<user_query, agent_error, schema_error, request, other_request,
                 prompted_query, query_result,
                 corrected_result, single_result, query_history, query_count>>
memoryVars == <<enable_memory, llm_available, conversation_contexts, updates, conv_response,
                submitted_prompt, pending,
                llm_error, exchanges, cleared, summary, last_call>>
promptVars == <<prompt_query, prompt_has_error, prompt_type>>
normalizeVars == <<fixed_once, fixed_twice>>
llmVars == <<max_retries, attempt, llm_pc, llm_log, llm_result>>
heapVars == <<context_objects, list_objects, context_refs, calls>>
auxVars == <<promptVars, normalizeVars, llmVars, heapVars>>
vars == <<sql_query, validation, exec_result, exec_pc, cursor_log, agent_response, parsed,
          user_query, agent_error, schema_error, request, other_request,
          prompted_query, query_result, corrected_result,
          single_result, query_history, query_count,
          enable_memory, llm_available, conversation_contexts, updates, conv_response,
          submitted_prompt, pending,
          llm_error, exchanges, cleared, summary, last_call,
          prompt_query, prompt_has_error, prompt_type, fixed_once, fixed_twice,
          max_retries, attempt, llm_pc, llm_log, llm_result,
          context_objects, list_objects, context_refs, calls>>

\* Python's None where a str is optional, and where a result is optional
None == <<"None">>
Absent == <<>>
Some(r) == <<r>>

SessionIds == {"default", "s2"}

\* sql_results: None, a list of rows (a row stands for its str()), or any
\* other value (rows then holds its str())
NoResults == [is_none |-> TRUE, is_list |-> FALSE, rows |-> <<>>]
ResultList(rows) == [is_none |-> FALSE, is_list |-> TRUE, rows |-> rows]
SingleValue(text) == [is_none |-> FALSE, is_list |-> FALSE, rows |-> <<text>>]

\* last_call before any call, and the exchange of a call that has none
NoExchange ==
    [question |-> <<>>, sql_results |-> NoResults, error_message |-> <<>>, reply |-> <<>>]
NoCall == [op |-> "none", session_id |-> "default", exchange |-> NoExchange]

\* a caller that has not called, or has called op and stands at pc;
\* count_read is the _query_count its `+= 1` loaded, prompted what it handed
\* to agent.run
IdleRequest == [op |-> "none", pc |-> "idle", count_read |-> 0, prompted |-> <<>>]

\* the services after construction, before any request
ProcessIdle ==
    /\ user_query = None
    /\ agent_error = None
    /\ schema_error = None
    /\ request = IdleRequest
    /\ other_request = IdleRequest
    /\ prompted_query = Absent
    /\ query_result = Absent
    /\ corrected_result = Absent
    /\ single_result = Absent
    /\ query_history = <<>>
    /\ query_count = 0

MemoryIdle ==
    /\ enable_memory = TRUE
    /\ llm_available = TRUE
    /\ conversation_contexts = [s \in SessionIds |-> Absent]
    /\ updates = [s \in SessionIds |-> <<>>]
    /\ conv_response = Absent
    /\ submitted_prompt = Absent
    /\ pending = Absent
    /\ llm_error = None
    /\ exchanges = {}
    /\ cleared = Absent
    /\ summary = Absent
    /\ last_call = NoCall

\* no concurrent call is under way
HeapIdle ==
    /\ context_objects = <<>>
    /\ list_objects = <<>>
    /\ context_refs = <<>>
    /\ calls = <<>>

\* the prompt classifier, the normaliser and the LLM client before any call
AuxIdle ==
    /\ HeapIdle
    /\ prompt_query = None
    /\ prompt_has_error = FALSE
    /\ prompt_type = Absent
    /\ fixed_once = None
    /\ fixed_twice = None
    /\ max_retries = 0
    /\ attempt = 0
    /\ llm_pc = "idle"
    /\ llm_log = <<>>
    /\ llm_result = Absent

----------------------------------------------------------------------------
(* Characters and strings *)

Chars(lit) == [i \in 1..Len(lit) |-> SubSeq(lit, i, i)]

LowerLetters ==
    Chars("abcdefghijklmnopqrstuvwxyz")
    \o <<"i_acute", "a_acute", "e_acute", "o_acute", "u_acute", "a_tilde", "o_tilde",
         "a_circ", "e_circ", "o_circ", "c_cedilla">>
UpperLetters ==
    Chars("ABCDEFGHIJKLMNOPQRSTUVWXYZ")
    \o <<"I_ACUTE", "A_ACUTE", "E_ACUTE", "O_ACUTE", "U_ACUTE", "A_TILDE", "O_TILDE",
         "A_CIRC", "E_CIRC", "O_CIRC", "C_CEDILLA">>
LowerSet == {LowerLetters[i] : i \in 1..Len(LowerLetters)}
UpperSet == {UpperLetters[i] : i \in 1..Len(UpperLetters)}
UpperOf == [c \in LowerSet |-> UpperLetters[CHOOSE i \in 1..Len(LowerLetters) : LowerLetters[i] = c]]
LowerOf == [c \in UpperSet |-> LowerLetters[CHOOSE i \in 1..Len(UpperLetters) : UpperLetters[i] = c]]

\* str.upper() / str.lower() of one character
ToUpper(c) == IF c \in LowerSet THEN UpperOf[c] ELSE c
ToLower(c) == IF c \in UpperSet THEN LowerOf[c] ELSE c
Upper(s) == [i \in 1..Len(s) |-> ToUpper(s[i])]
Lower(s) == [i \in 1..Len(s) |-> ToLower(s[i])]

\* the regex class \d, and what int() accepts
DigitSet == {"0", "1", "2", "3", "4", "5", "6", "7", "8", "9"}
\* str.isdigit() of one character: the decimal digits and the digit-like
\* characters that int() refuses, such as U+00B2
IsDigitChar(c) == c \in DigitSet \/ c = "SUP2"
\* the regex class \w (str.isalnum() or "_")
IsWord(c) == c \in LowerSet \/ c \in UpperSet \/ IsDigitChar(c) \/ c = "_"
\* the characters str.isspace() holds of: the ASCII ones (U+000B and
\* U+001C to U+001F by name) and the Unicode spaces and separators
WhitespaceSet ==
    { " ", "\n", "\t", "\r", "\f", "U+000B", "U+001C", "U+001D", "U+001E", "U+001F",
      "U+0085", "U+00A0", "U+1680", "U+2000", "U+2001", "U+2002", "U+2003", "U+2004",
      "U+2005", "U+2006", "U+2007", "U+2008", "U+2009", "U+200A", "U+2028", "U+2029",
      "U+202F", "U+205F", "U+3000" }
\* the regex class \s, and what str.strip() removes
IsSpace(c) == c \in WhitespaceSet

\* s[i..] starts with w (w at position i of s)
HasAt(s, i, w) ==
    /\ i >= 1
    /\ i + Len(w) - 1 <= Len(s)
    /\ \A k \in 1..Len(w) : s[i + k - 1] = w[k]

\* w in s
Contains(s, w) == \E i \in 1..(Len(s) - Len(w) + 1) : HasAt(s, i, w)

\* s.find(w): the first position of w in s (1-based), 0 when absent
Find(s, w) ==
    IF Contains(s, w)
    THEN CHOOSE i \in 1..(Len(s) - Len(w) + 1) :
            HasAt(s, i, w) /\ \A j \in 1..(i - 1) : ~HasAt(s, j, w)
    ELSE 0

\* s.strip()
Strip(s) ==
    IF \A i \in 1..Len(s) : IsSpace(s[i]) THEN <<>>
    ELSE LET a == CHOOSE i \in 1..Len(s) :
                      ~IsSpace(s[i]) /\ \A j \in 1..(i - 1) : IsSpace(s[j])
             b == CHOOSE i \in 1..Len(s) :
                      ~IsSpace(s[i]) /\ \A j \in (i + 1)..Len(s) : IsSpace(s[j])
         IN SubSeq(s, a, b)

\* s.startswith(w)
StartsWith(s, w) == HasAt(s, 1, w)

\* re.search(a + ".*" + b, s) without DOTALL: a, then b later on the same line
SearchGap(s, a, b) ==
    \E i \in 1..Len(s) :
        /\ HasAt(s, i, a)
        /\ \E j \in (i + Len(a))..Len(s) :
              /\ HasAt(s, j, b)
              /\ \A k \in (i + Len(a))..(j - 1) : s[k] # "\n"

\* the concatenation of a sequence of strings
RECURSIVE Concat(_)
Concat(ss) == IF ss = <<>> THEN <<>> ELSE Head(ss) \o Concat(Tail(ss))

\* all sequences over S of length 0..n
SeqsUpTo(S, n) == UNION {[1..k -> S] : k \in 0..n}

----------------------------------------------------------------------------
(* validate_sql_query *)

dangerous_keywords ==
    << Chars("DROP"), Chars("DELETE"), Chars("UPDATE"), Chars("INSERT"),
       Chars("ALTER"), Chars("CREATE"), Chars("TRUNCATE"), Chars("EXEC"),
       Chars("EXECUTE"), Chars("xp_"), Chars("sp_"), Chars("BULK"),
       Chars("OPENROWSET") >>

BlockedReason(keyword) == Chars("Palavra-chave perigosa detectada: ") \o keyword

\* the list filter of lines 205-207: one reason per keyword found, in list order
RECURSIVE BlockedReasonsFrom(_, _)
BlockedReasonsFrom(sql_upper, k) ==
    IF k > Len(dangerous_keywords) THEN <<>>
    ELSE (IF Contains(sql_upper, dangerous_keywords[k])
          THEN <<BlockedReason(dangerous_keywords[k])>> ELSE <<>>)
         \o BlockedReasonsFrom(sql_upper, k + 1)

\* lines 210-219: the suspicious patterns, searched with re.IGNORECASE
SuspiciousWarnings(sql) ==
    (IF Contains(sql, Chars("--")) THEN <<"Padrao suspeito detectado: --">> ELSE <<>>)
    \o (IF SearchGap(sql, Chars("/*"), Chars("*/"))
        THEN <<"Padrao suspeito detectado: /\\*.*\\*/">> ELSE <<>>)
    \o (IF SearchGap(Upper(sql), Chars(";"), Chars("DROP"))
        THEN <<"Padrao suspeito detectado: ;.*DROP">> ELSE <<>>)
    \o (IF SearchGap(Upper(sql), Chars(";"), Chars("DELETE"))
        THEN <<"Padrao suspeito detectado: ;.*DELETE">> ELSE <<>>)

\* lines 221-223
SelectWarning(sql_upper) ==
    IF ~StartsWith(Strip(sql_upper), Chars("SELECT"))
    THEN <<"Consulta nao e uma operacao SELECT">> ELSE <<>>

MaxWarnings == 3

\* validate_sql_query with the warning limit off by one (<= for <)
validate_sql_query_WarnLimit(sql) ==
    LET sql_upper == Upper(sql)
        blocked_reasons == BlockedReasonsFrom(sql_upper, 1)
        warnings == SuspiciousWarnings(sql) \o SelectWarning(sql_upper)
        is_safe == Len(blocked_reasons) = 0
    IN [ is_valid |-> is_safe /\ Len(warnings) <= MaxWarnings,
         is_safe |-> is_safe,
         warnings |-> warnings,
         blocked_reasons |-> blocked_reasons ]

validate_sql_query(sql) ==
    LET sql_upper == Upper(sql)
        blocked_reasons == BlockedReasonsFrom(sql_upper, 1)
        warnings == SuspiciousWarnings(sql) \o SelectWarning(sql_upper)
        is_safe == Len(blocked_reasons) = 0
    IN [ is_valid |-> is_safe /\ Len(warnings) < MaxWarnings,
         is_safe |-> is_safe,
         warnings |-> warnings,
         blocked_reasons |-> blocked_reasons ]

----------------------------------------------------------------------------
(* execute_sql_query *)

\* ', '.join(parts)
RECURSIVE JoinComma(_)
JoinComma(parts) ==
    IF parts = <<>> THEN <<>>
    ELSE IF Len(parts) = 1 THEN parts[1]
    ELSE parts[1] \o Chars(", ") \o JoinComma(Tail(parts))

\* dict(zip(column_names, row)): a later duplicate column wins
ZipDict(column_names, row) ==
    LET n == IF Len(column_names) < Len(row) THEN Len(column_names) ELSE Len(row)
    IN [c \in {column_names[i] : i \in 1..n} |->
            row[CHOOSE i \in 1..n :
                    column_names[i] = c /\ \A j \in (i + 1)..n : column_names[j] # c]]

\* QueryResult; execution_time carries no decision and is left out; metadata
\* is Absent for the dataclass default None and Some(dict) otherwise
QueryResult(sql, results, success, row_count, error_message, metadata) ==
    [ sql_query |-> sql, results |-> results, success |-> success,
      row_count |-> row_count, error_message |-> error_message, metadata |-> metadata ]

\* lines 264-267: the metadata of a direct execution
ExecutionMetadata(warnings) == Some([validation_warnings |-> warnings, direct_execution |-> TRUE])

\* What the database collaborator does with one execution: get_raw_connection
\* raises, cursor.execute raises, or the cursor yields columns and rows.
DbOutcomes ==
    { [kind |-> "connect_error", message |-> Chars("unable to open database file"),
       columns |-> <<>>, rows |-> <<>>],
      [kind |-> "execute_error", message |-> Chars("no such table: t"),
       columns |-> <<>>, rows |-> <<>>],
      [kind |-> "rows", message |-> <<>>, columns |-> <<"total">>, rows |-> <<>>],
      [kind |-> "rows", message |-> <<>>, columns |-> <<"total">>, rows |-> << <<7>> >>],
      [kind |-> "rows", message |-> <<>>, columns |-> <<"city", "total">>,
       rows |-> << <<"A", 7>>, <<"B", 3>> >>] }

\* lines 235-283: execute_sql_query(sql) when the database behaves as db.
\* result is the QueryResult returned; handed lists what cursor.execute was
\* called with (nothing when validation or get_raw_connection raised first).
execute_sql_query_Unvalidated(sql, db) ==
    IF db.kind # "rows"
    THEN [ result |-> QueryResult(sql, <<>>, FALSE, 0, db.message, Absent),
           handed |-> IF db.kind = "execute_error" THEN <<sql>> ELSE <<>> ]
    ELSE LET result_dicts == [i \in 1..Len(db.rows) |-> ZipDict(db.columns, db.rows[i])]
         IN [ result |-> QueryResult(sql, result_dicts, TRUE, Len(result_dicts), None,
                                     ExecutionMetadata(validate_sql_query(sql).warnings)),
              handed |-> <<sql>> ]

execute_sql_query(sql, db) ==
    LET v == validate_sql_query(sql)
    IN IF ~v.is_safe
       THEN [ result |-> QueryResult(sql, <<>>, FALSE, 0,
                  Chars("Query blocked for safety: ") \o JoinComma(v.blocked_reasons), Absent),
              handed |-> <<>> ]
       ELSE IF db.kind # "rows"
       THEN [ result |-> QueryResult(sql, <<>>, FALSE, 0, db.message, Absent),
              handed |-> IF db.kind = "execute_error" THEN <<sql>> ELSE <<>> ]
       ELSE LET result_dicts == [i \in 1..Len(db.rows) |-> ZipDict(db.columns, db.rows[i])]
            IN [ result |-> QueryResult(sql, result_dicts, TRUE, Len(result_dicts), None,
                                        ExecutionMetadata(v.warnings)),
                 handed |-> <<sql>> ]

----------------------------------------------------------------------------
(* Regular-expression helpers of _parse_agent_results *)

IsDigit(c) == c \in DigitSet
IsWordOrSpace(c) == IsWord(c) \/ IsSpace(c)

\* the end of the longest run of characters satisfying P that starts at i
\* (i - 1 when s[i] does not satisfy P): a greedy P+ / P*
RunEnd(P(_), s, i) ==
    CHOOSE j \in (i - 1)..Len(s) :
        /\ \A k \in i..j : P(s[k])
        /\ (j = Len(s) \/ ~P(s[j + 1]))

\* the first position >= i of character c in s, 0 when there is none
NextChar(s, i, c) ==
    IF \E j \in i..Len(s) : s[j] = c
    THEN CHOOSE j \in i..Len(s) : s[j] = c /\ \A k \in i..(j - 1) : s[k] # c
    ELSE 0

Digits10 == Chars("0123456789")
DigitVal(c) == (CHOOSE d \in 1..10 : Digits10[d] = c) - 1

\* int(text) of a string of decimal digits
RECURSIVE StrToInt(_)
StrToInt(ds) ==
    IF ds = <<>> THEN 0
    ELSE 10 * StrToInt(SubSeq(ds, 1, Len(ds) - 1)) + DigitVal(ds[Len(ds)])

\* str(n) of a natural number
RECURSIVE IntToStr(_)
IntToStr(n) ==
    IF n < 10 THEN <<Digits10[n + 1]>>
    ELSE IntToStr(n \div 10) \o <<Digits10[(n % 10) + 1]>>

\* re.findall(r'\d+', s): the maximal digit runs of s from position i on
RECURSIVE FindAllNumbers(_, _)
FindAllNumbers(s, i) ==
    IF i > Len(s) THEN <<>>
    ELSE IF IsDigit(s[i])
         THEN LET e == RunEnd(IsDigit, s, i)
              IN <<SubSeq(s, i, e)>> \o FindAllNumbers(s, e + 1)
         ELSE FindAllNumbers(s, i + 1)

\* s.split('\n')
RECURSIVE SplitLines(_)
SplitLines(s) ==
    LET n == NextChar(s, 1, "\n")
    IN IF n = 0 THEN <<s>>
       ELSE <<SubSeq(s, 1, n - 1)>> \o SplitLines(SubSeq(s, n + 1, Len(s)))

\* r'\[\((\d+),\)\]' matched at position i: the end of the match, 0 if none
TupleLiteralEnd(s, i) ==
    IF HasAt(s, i, Chars("[(")) /\ i + 2 <= Len(s) /\ IsDigit(s[i + 2])
    THEN LET e == RunEnd(IsDigit, s, i + 2)
         IN IF HasAt(s, e + 1, Chars(",)]")) THEN e + 3 ELSE 0
    ELSE 0

\* re.search(r'\[\((\d+),\)\]', s): group 1 of the leftmost match, None if none
SearchTupleLiteral(s) ==
    IF \E i \in 1..Len(s) : TupleLiteralEnd(s, i) # 0
    THEN LET i == CHOOSE a \in 1..Len(s) :
                      TupleLiteralEnd(s, a) # 0 /\ \A b \in 1..(a - 1) : TupleLiteralEnd(s, b) = 0
         IN SubSeq(s, i + 2, TupleLiteralEnd(s, i) - 3)
    ELSE None

\* r'\d+\. ([\w\s]+) - (\d+)' matched at position i.  The digits end at the
\* ". ", the [\w\s]+ run is cut back by the one space that opens " - ", and the
\* count is the digit run after it.  end = 0 when there is no match at i.
NoMatch == [end |-> 0, g1 |-> <<>>, g2 |-> <<>>]

ComplexMatchAt(s, i) ==
    IF i > Len(s) \/ ~IsDigit(s[i]) THEN NoMatch
    ELSE LET e1 == RunEnd(IsDigit, s, i)
         IN IF ~HasAt(s, e1 + 1, Chars(". ")) THEN NoMatch
            ELSE LET p == e1 + 3
                     e2 == RunEnd(IsWordOrSpace, s, p)
                 IN IF /\ e2 >= p + 1
                       /\ s[e2] = " "
                       /\ HasAt(s, e2 + 1, Chars("- "))
                       /\ e2 + 3 <= Len(s)
                       /\ IsDigit(s[e2 + 3])
                    THEN LET e3 == RunEnd(IsDigit, s, e2 + 3)
                         IN [end |-> e3, g1 |-> SubSeq(s, p, e2 - 1),
                             g2 |-> SubSeq(s, e2 + 3, e3)]
                    ELSE NoMatch

\* re.findall(complex_pattern, s) from position i on: the (city, count) pairs
RECURSIVE FindAllComplex(_, _)
FindAllComplex(s, i) ==
    IF i > Len(s) THEN <<>>
    ELSE LET m == ComplexMatchAt(s, i)
         IN IF m.end # 0
            THEN << <<m.g1, m.g2>> >> \o FindAllComplex(s, m.end + 1)
            ELSE FindAllComplex(s, i + 1)

\* lines 477-479: the matches of every line, in line order
RECURSIVE FindAllComplexLines(_)
FindAllComplexLines(lines) ==
    IF lines = <<>> THEN <<>>
    ELSE FindAllComplex(Head(lines), 1) \o FindAllComplexLines(Tail(lines))

\* re.search(r'are ([^.]+)\.', s): group 1 of the leftmost match, None if none
CitiesClauseAt(s, i) ==
    /\ HasAt(s, i, Chars("are "))
    /\ i + 4 <= Len(s)
    /\ s[i + 4] # "."
    /\ NextChar(s, i + 4, ".") # 0

SearchCitiesClause(s) ==
    IF \E i \in 1..Len(s) : CitiesClauseAt(s, i)
    THEN LET i == CHOOSE a \in 1..Len(s) :
                      CitiesClauseAt(s, a) /\ \A b \in 1..(a - 1) : ~CitiesClauseAt(s, b)
         IN SubSeq(s, i + 4, NextChar(s, i + 4, ".") - 1)
    ELSE None

\* r',\s*(?:and\s+)?' matched at the comma at position i: the end of the match
SeparatorEnd(s, i) ==
    LET w == RunEnd(IsSpace, s, i + 1)
    IN IF HasAt(s, w + 1, Chars("and")) /\ w + 4 <= Len(s) /\ IsSpace(s[w + 4])
       THEN RunEnd(IsSpace, s, w + 4)
       ELSE w

\* re.split(r',\s*(?:and\s+)?', s)
RECURSIVE SplitCities(_)
SplitCities(s) ==
    LET c == NextChar(s, 1, ",")
    IN IF c = 0 THEN <<s>>
       ELSE <<SubSeq(s, 1, c - 1)>> \o SplitCities(SubSeq(s, SeparatorEnd(s, c) + 1, Len(s)))

\* line 424: [city.strip() for city in cities if city.strip()]
RECURSIVE StripNonEmpty(_)
StripNonEmpty(parts) ==
    IF parts = <<>> THEN <<>>
    ELSE (IF Strip(Head(parts)) # <<>> THEN <<Strip(Head(parts))>> ELSE <<>>)
         \o StripNonEmpty(Tail(parts))

\* r'\([^)]+\)' matched at position i: the position of the closing ")", 0 if none
ParenEnd(s, i) ==
    IF i <= Len(s) /\ s[i] = "(" /\ NextChar(s, i + 1, ")") > i + 1
    THEN NextChar(s, i + 1, ")")
    ELSE 0

\* r'(?:,\s*\([^)]+\))*\]' after a closed tuple at position e: the position of
\* the closing "]", 0 if the list does not close
RECURSIVE TupleListEnd(_, _)
TupleListEnd(s, e) ==
    IF e + 1 > Len(s) THEN 0
    ELSE IF s[e + 1] = "]" THEN e + 1
    ELSE IF s[e + 1] = ","
         THEN LET q == ParenEnd(s, RunEnd(IsSpace, s, e + 2) + 1)
              IN IF q = 0 THEN 0 ELSE TupleListEnd(s, q)
    ELSE 0

\* r'\[(\([^)]+\)(?:,\s*\([^)]+\))*)\]' matched at position i: the position of "]"
BracketListEnd(s, i) ==
    IF s[i] = "[" /\ ParenEnd(s, i + 1) # 0
    THEN TupleListEnd(s, ParenEnd(s, i + 1))
    ELSE 0

\* re.search of the bracketed tuple list in s: group 1 of the leftmost match
SearchBracketList(s) ==
    IF \E i \in 1..Len(s) : BracketListEnd(s, i) # 0
    THEN LET i == CHOOSE a \in 1..Len(s) :
                      BracketListEnd(s, a) # 0 /\ \A b \in 1..(a - 1) : BracketListEnd(s, b) = 0
         IN SubSeq(s, i + 1, BracketListEnd(s, i) - 1)
    ELSE None

\* r"\('([^']+)',\s*(\d+)\)" matched at position i
CityCountMatchAt(s, i) ==
    IF ~HasAt(s, i, Chars("('")) THEN NoMatch
    ELSE LET q == NextChar(s, i + 2, "'")
         IN IF q <= i + 2 \/ q + 1 > Len(s) \/ s[q + 1] # "," THEN NoMatch
            ELSE LET d == RunEnd(IsSpace, s, q + 2) + 1
                 IN IF d > Len(s) \/ ~IsDigit(s[d]) THEN NoMatch
                    ELSE LET e == RunEnd(IsDigit, s, d)
                         IN IF e + 1 <= Len(s) /\ s[e + 1] = ")"
                            THEN [end |-> e + 1, g1 |-> SubSeq(s, i + 2, q - 1),
                                  g2 |-> SubSeq(s, d, e)]
                            ELSE NoMatch

\* re.findall(city_count_pattern, s) from position i on
RECURSIVE FindAllCityCount(_, _)
FindAllCityCount(s, i) ==
    IF i > Len(s) THEN <<>>
    ELSE LET m == CityCountMatchAt(s, i)
         IN IF m.end # 0
            THEN << <<m.g1, m.g2>> >> \o FindAllCityCount(s, m.end + 1)
            ELSE FindAllCityCount(s, i + 1)

----------------------------------------------------------------------------
(* _parse_agent_results *)

\* what _parse_agent_results hands back: (rows, row_count), or an exception
Parsed(rows, row_count) == [raised |-> FALSE, rows |-> rows, row_count |-> row_count]
ParseRaises == [raised |-> TRUE, rows |-> <<>>, row_count |-> 0]

ResultRow(n) == [result |-> n]

\* lines 396-402, 440-446, 484-490: one ranked row per (city, count) match
RankedRows(matches) ==
    [k \in 1..Len(matches) |->
        [ rank |-> k,
          city |-> Strip(matches[k][1]),
          count |-> StrToInt(matches[k][2]),
          full_text |-> IntToStr(k) \o Chars(". ") \o Strip(matches[k][1])
                        \o Chars(" - ") \o matches[k][2] ]]

SummaryRow(text, response_type) ==
    [final_answer_text |-> text, response_type |-> response_type]

ComplexSummaryRow(text, n) ==
    [final_answer_text |-> text, response_type |-> "complex_query", total_results |-> n]

\* lines 449-454: the summary row of the tuple-list branch also carries the tuples
TupleSummaryRow(text, matches) ==
    [ final_answer_text |-> text, response_type |-> "complex_query",
      total_results |-> Len(matches), sql_results |-> matches ]

Last(seq) == seq[Len(seq)]

\* lines 393-411: the enumerated "N. Name - Count" items of the final answer
EnumeratedResult(final_answer_part) ==
    LET complex_matches == FindAllComplex(final_answer_part, 1)
    IN Parsed(Append(RankedRows(complex_matches),
                     ComplexSummaryRow(final_answer_part, Len(complex_matches))),
              Len(complex_matches))

\* lines 415-436: the (city, count) tuples of the top/cities branch; empty when
\* the branch does not apply
TopCitiesMatches(response, final_answer_part) ==
    IF /\ Contains(Lower(final_answer_part), Chars("top"))
       /\ Contains(Lower(final_answer_part), Chars("cities"))
    THEN LET cities_text == SearchCitiesClause(final_answer_part)
         IN IF cities_text = None THEN <<>>
            ELSE LET cities == StripNonEmpty(SplitCities(cities_text))
                     sql_results_text == SearchBracketList(response)
                 IN IF sql_results_text # None /\ cities # <<>>
                    THEN FindAllCityCount(sql_results_text, 1)
                    ELSE <<>>
    ELSE <<>>

\* TopCitiesResult counting the summary row as a result row
TopCitiesResult_CountsSummary(final_answer_part, city_count_matches) ==
    Parsed(Append(RankedRows(city_count_matches),
                  TupleSummaryRow(final_answer_part, city_count_matches)),
           Len(city_count_matches) + 1)

\* lines 438-456
TopCitiesResult(final_answer_part, city_count_matches) ==
    Parsed(Append(RankedRows(city_count_matches),
                  TupleSummaryRow(final_answer_part, city_count_matches)),
           Len(city_count_matches))

\* LastNumberResult taking numbers[0] for numbers[-1]
LastNumberResult_First(numbers, text) ==
    Parsed(<<ResultRow(StrToInt(Head(numbers))), SummaryRow(text, "simple_query")>>,
           StrToInt(Head(numbers)))

\* lines 458-466, 501-509: the last integer literal of the text
LastNumberResult(numbers, text) ==
    Parsed(<<ResultRow(StrToInt(Last(numbers))), SummaryRow(text, "simple_query")>>,
           StrToInt(Last(numbers)))

\* re.search(r'final answer[^0-9]*(\d+)', s, re.IGNORECASE): group 1, None if none
SearchFinalAnswerNumber(s) ==
    LET l == Lower(s)
        At(i) == /\ HasAt(l, i, Chars("final answer"))
                 /\ \E j \in (i + 12)..Len(s) : IsDigit(s[j])
    IN IF \E i \in 1..Len(s) : At(i)
       THEN LET i == CHOOSE a \in 1..Len(s) : At(a) /\ \A b \in 1..(a - 1) : ~At(b)
                d == CHOOSE j \in (i + 12)..Len(s) :
                         IsDigit(s[j]) /\ \A k \in (i + 12)..(j - 1) : ~IsDigit(s[k])
            IN SubSeq(s, d, RunEnd(IsDigit, s, d))
       ELSE None

\* re.search(r'result was (\d+)', s, re.IGNORECASE): group 1, None if none
SearchResultWas(s) ==
    LET l == Lower(s)
        At(i) == /\ HasAt(l, i, Chars("result was "))
                 /\ i + 11 <= Len(s)
                 /\ IsDigit(s[i + 11])
    IN IF \E i \in 1..Len(s) : At(i)
       THEN LET i == CHOOSE a \in 1..Len(s) : At(a) /\ \A b \in 1..(a - 1) : ~At(b)
            IN SubSeq(s, i + 11, RunEnd(IsDigit, s, i + 11))
       ELSE None

\* str.isdigit()
IsDigitStr(s) == s # <<>> /\ \A i \in 1..Len(s) : IsDigitChar(s[i])

\* int(s) raises ValueError unless every character is a decimal digit
IntRaises(s) == s = <<>> \/ \E i \in 1..Len(s) : ~IsDigit(s[i])

\* lines 542-557: the first integer literal of the Observation section
ObservationNumbers(response) ==
    IF Contains(response, Chars("Observation:"))
    THEN FindAllNumbers(response, Find(response, Chars("Observation:")))
    ELSE <<>>

\* lines 511-562: what is tried once the last-integer rule found no integer
ParseWithoutNumber(response) ==
    LET text == Strip(response)
        first_line == Strip(Head(SplitLines(text)))
    IN IF /\ Contains(Lower(response), Chars("final answer"))
          /\ SearchFinalAnswerNumber(response) # None
       THEN Parsed(<<ResultRow(StrToInt(SearchFinalAnswerNumber(response))),
                     SummaryRow(text, "simple_query")>>,
                   StrToInt(SearchFinalAnswerNumber(response)))
       ELSE IF /\ Contains(Lower(response), Chars("result was"))
               /\ SearchResultWas(response) # None
       THEN Parsed(<<ResultRow(StrToInt(SearchResultWas(response))),
                     SummaryRow(text, "simple_query")>>,
                   StrToInt(SearchResultWas(response)))
       ELSE IF IsDigitStr(first_line)
       THEN IF IntRaises(first_line) THEN ParseRaises
            ELSE Parsed(<<ResultRow(StrToInt(first_line)), SummaryRow(text, "simple_query")>>,
                        StrToInt(first_line))
       ELSE IF ObservationNumbers(response) # <<>>
       THEN Parsed(<<ResultRow(StrToInt(Head(ObservationNumbers(response)))),
                     SummaryRow(text, "observation_query")>>,
                   StrToInt(Head(ObservationNumbers(response))))
       ELSE Parsed(<<SummaryRow(text, "fallback_query")>>, 0)

\* lines 468-562: the strategies that read the whole response
ParseWholeResponse(response) ==
    LET text == Strip(response)
        lines == SplitLines(text)
        all_matches == IF Len(lines) > 1 THEN FindAllComplexLines(lines) ELSE <<>>
        numbers == FindAllNumbers(response, 1)
    IN IF all_matches # <<>>
       THEN Parsed(Append(RankedRows(all_matches),
                          ComplexSummaryRow(text, Len(all_matches))),
                   Len(all_matches))
       ELSE IF numbers # <<>> THEN LastNumberResult(numbers, text)
       ELSE ParseWithoutNumber(response)

\* lines 382-466: the "Final Answer:" block
FinalAnswerPart(response) ==
    Strip(SubSeq(response, Find(response, Chars("Final Answer:")) + 13, Len(response)))

\* FinalAnswerResult trying the top/cities tuple list before the enumerated items
FinalAnswerResult_TuplesFirst(response) ==
    LET final_answer_part == FinalAnswerPart(response)
        city_count_matches == TopCitiesMatches(response, final_answer_part)
        numbers == FindAllNumbers(final_answer_part, 1)
    IN IF city_count_matches # <<>>
       THEN TopCitiesResult(final_answer_part, city_count_matches)
       ELSE IF FindAllComplex(final_answer_part, 1) # <<>>
       THEN EnumeratedResult(final_answer_part)
       ELSE IF numbers # <<>>
       THEN LastNumberResult(numbers, final_answer_part)
       ELSE ParseWholeResponse(response)

\* lines 382-466, falling through to line 468 when the block yields nothing
FinalAnswerResult(response) ==
    LET final_answer_part == FinalAnswerPart(response)
        city_count_matches == TopCitiesMatches(response, final_answer_part)
        numbers == FindAllNumbers(final_answer_part, 1)
    IN IF FindAllComplex(final_answer_part, 1) # <<>>
       THEN EnumeratedResult(final_answer_part)
       ELSE IF city_count_matches # <<>>
       THEN TopCitiesResult(final_answer_part, city_count_matches)
       ELSE IF numbers # <<>>
       THEN LastNumberResult(numbers, final_answer_part)
       ELSE ParseWholeResponse(response)

\* lines 374-379
TupleLiteralResult(sql_match) ==
    Parsed(<<ResultRow(StrToInt(sql_match))>>, StrToInt(sql_match))

\* _parse_agent_results looking at the "Final Answer:" block before the tuple literal
_parse_agent_results_FinalAnswerFirst(response) ==
    LET sql_match == SearchTupleLiteral(response)
    IN IF Contains(response, Chars("Final Answer:")) THEN FinalAnswerResult(response)
       ELSE IF sql_match # None THEN TupleLiteralResult(sql_match)
       ELSE ParseWholeResponse(response)

_parse_agent_results(response) ==
    LET sql_match == SearchTupleLiteral(response)
    IN IF sql_match # None THEN TupleLiteralResult(sql_match)
       ELSE IF Contains(response, Chars("Final Answer:")) THEN FinalAnswerResult(response)
       ELSE ParseWholeResponse(response)

----------------------------------------------------------------------------
(* The SQL strings the validator and the executor are run on *)

MaxSqlFrags == 3

SqlFrags ==
    { Chars("SELECT "), Chars("select 1"), Chars("drop"), Chars("DeLeTe"),
      Chars("xp_"), Chars("--"), Chars("/*"), Chars("*/"), Chars(";"),
      Chars("\n"), Chars("/*c*/"), <<"\f">> }

\* str.title() is modelled further down; the three letter cases of a keyword
MixedCase(s) == [i \in 1..Len(s) |-> IF i % 2 = 1 THEN ToUpper(s[i]) ELSE ToLower(s[i])]

KeywordInputs ==
    { pre \o kw \o post :
        pre \in {<<>>, Chars("SELECT ")},
        kw \in UNION { {Upper(dangerous_keywords[k]), Lower(dangerous_keywords[k]),
                        MixedCase(dangerous_keywords[k])} :
                        k \in 1..Len(dangerous_keywords) },
        post \in {<<>>, Chars(" t")} }

SqlInputs ==
    {Concat(fs) : fs \in SeqsUpTo(SqlFrags, MaxSqlFrags)} \cup KeywordInputs

ValidateInit ==
    /\ sql_query \in SqlInputs
    /\ validation = Absent
    /\ exec_result = Absent
    /\ exec_pc = "idle"
    /\ cursor_log = <<>>
    /\ agent_response = <<>>
    /\ parsed = Absent
    /\ ProcessIdle
    /\ MemoryIdle
    /\ AuxIdle

\* a caller runs validate_sql_query(sql_query)
ValidateSql ==
    /\ sql_query # None
    /\ validation = Absent
    /\ exec_pc = "idle"
    /\ validation' = Some(validate_sql_query(sql_query))
    /\ UNCHANGED <<sql_query, exec_result, exec_pc, cursor_log,
                   parseVars, processVars, memoryVars, auxVars>>

\* a caller runs execute_sql_query(sql_query), lines 235-249, up to the call
\* of cursor.execute, where the call waits for the database; a query that
\* is blocked, or a connection that cannot be had, ends the call in the
\* except branch of lines 272-283 before the cursor is reached
ExecuteSql ==
    /\ validation # Absent
    /\ exec_pc = "idle"
    /\ \E db \in DbOutcomes :
          \E e \in {execute_sql_query(sql_query, db)} :
             IF e.handed # <<>>
             THEN /\ cursor_log' = cursor_log \o e.handed
                  /\ exec_pc' = "execute"
                  /\ UNCHANGED exec_result
             ELSE /\ exec_result' = Some(e.result)
                  /\ exec_pc' = "done"
                  /\ UNCHANGED cursor_log
    /\ UNCHANGED <<sql_query, validation, parseVars, processVars, memoryVars, auxVars>>

\* what the database does once cursor.execute has been called
AfterConnect == {db \in DbOutcomes : db.kind # "connect_error"}

\* cursor.execute returns or raises, and lines 249-283 run to the return of
\* execute_sql_query
CursorExecute ==
    /\ exec_pc = "execute"
    /\ \E db \in AfterConnect :
          exec_result' = Some(execute_sql_query(sql_query, db).result)
    /\ exec_pc' = "done"
    /\ UNCHANGED <<sql_query, validation, cursor_log,
                   parseVars, processVars, memoryVars, auxVars>>

ValidateNext == ValidateSql \/ ExecuteSql \/ CursorExecute

SpecValidate == ValidateInit /\ [][ValidateNext]_vars

\* the keyword occurs in sql in some letter case, at some position
ContainsAnyCase(sql, keyword) == Contains(Upper(sql), Upper(keyword))

\* C1: every SQL string that contains a keyword of the blocked set, in any
\* letter case and at any position, is reported unsafe by validate_sql_query
\* and blocked_reasons has the entry naming that keyword.
C1_BlockedKeywordUnsafe ==
    validation # Absent =>
        \A k \in 1..Len(dangerous_keywords) :
            ContainsAnyCase(sql_query, dangerous_keywords[k]) =>
                /\ ~validation[1].is_safe
                /\ \E r \in 1..Len(validation[1].blocked_reasons) :
                      validation[1].blocked_reasons[r] = BlockedReason(dangerous_keywords[k])

\* C2: execute_sql_query never hands to the cursor a SQL string that
\* validate_sql_query reports unsafe; for an unsafe string it returns a failed
\* QueryResult with no rows and row_count 0, and the cursor is not called.
C2_UnsafeNeverExecuted ==
    /\ \A i \in 1..Len(cursor_log) : validate_sql_query(cursor_log[i]).is_safe
    /\ (exec_result # Absent /\ ~validation[1].is_safe) =>
            /\ exec_result[1].success = FALSE
            /\ exec_result[1].results = <<>>
            /\ exec_result[1].row_count = 0
            /\ cursor_log = <<>>
    /\ (validation # Absent /\ ~validation[1].is_safe) => exec_pc # "execute"

C2_Witness ==
    /\ exec_result # Absent
    /\ ~validation[1].is_safe
    /\ exec_result[1].success = FALSE
    /\ Contains(sql_query, Chars("drop"))

\* C4: is_safe holds exactly when blocked_reasons is empty, is_valid exactly
\* when is_safe and fewer than 3 warnings; a string that begins with SELECT,
\* has no blocked keyword and triggers at most 2 warning patterns is valid.
C4_SafeAndValid ==
    validation # Absent =>
        LET v == validation[1]
        IN /\ v.is_safe <=> (v.blocked_reasons = <<>>)
           /\ v.is_valid <=> (v.is_safe /\ Len(v.warnings) < 3)
           /\ ( /\ StartsWith(sql_query, Chars("SELECT"))
                /\ \A k \in 1..Len(dangerous_keywords) :
                      ~ContainsAnyCase(sql_query, dangerous_keywords[k])
                /\ Len(SuspiciousWarnings(sql_query)) <= 2 )
              => v.is_valid

C4_Witness ==
    /\ validation # Absent
    /\ StartsWith(sql_query, Chars("SELECT"))
    /\ Len(validation[1].warnings) = 2
    /\ validation[1].is_valid

----------------------------------------------------------------------------
(* The agent traces the parser is run on *)

MaxTraceFrags == 3

TraceFrags ==
    { Chars("[(42,)]"), Chars("[(7,)]"), Chars("Final Answer:"),
      Chars(" The top 2 cities are A and B."), Chars(" Top cities are , and ."),
      Chars("[('A', 20), ('B', 18)]"),
      Chars("\n1. A - 5"), Chars(" Top cities are A, B.\n1. C - 7"),
      Chars(" is 138."), <<"SUP2">>,
      Chars("Observation: "), Chars("The result was "), Chars("\n"),
      Chars("abc") }

TraceInputs == {Concat(fs) : fs \in SeqsUpTo(TraceFrags, MaxTraceFrags)}

ParseInit ==
    /\ agent_response \in TraceInputs
    /\ parsed = Absent
    /\ sql_query = <<>>
    /\ validation = Absent
    /\ exec_result = Absent
    /\ exec_pc = "idle"
    /\ cursor_log = <<>>
    /\ ProcessIdle
    /\ MemoryIdle
    /\ AuxIdle

\* a caller runs _parse_agent_results(agent_response)
ParseAgentResults ==
    /\ parsed = Absent
    /\ parsed' = Some(_parse_agent_results(agent_response))
    /\ UNCHANGED <<agent_response, validateVars, processVars, memoryVars, auxVars>>

ParseNext == ParseAgentResults

SpecParse == ParseInit /\ [][ParseNext]_vars

\* s[i..j+3] is a literal "[(N,)]" whose digits are s[i+2..j]
TupleLiteralSpan(s, i, j) ==
    /\ HasAt(s, i, Chars("[("))
    /\ j >= i + 2
    /\ \A k \in (i + 2)..j : IsDigit(s[k])
    /\ HasAt(s, j + 1, Chars(",)]"))

HasTupleLiteral(s) == \E i \in 1..Len(s) : \E j \in i..Len(s) : TupleLiteralSpan(s, i, j)

\* C6: a trace that contains a single-value tuple literal [(N,)] parses to
\* exactly the one row {result: N} with row_count N (N the leftmost literal),
\* whatever else the trace holds: a "Final Answer:" block, enumerated lines,
\* an Observation section.
C6_TupleLiteralWins ==
    parsed # Absent =>
        \A i \in 1..Len(agent_response) : \A j \in i..Len(agent_response) :
            ( /\ TupleLiteralSpan(agent_response, i, j)
              /\ \A b \in 1..(i - 1) : ~\E c \in b..Len(agent_response) :
                     TupleLiteralSpan(agent_response, b, c) )
            => /\ ~parsed[1].raised
               /\ parsed[1].rows = <<[result |-> StrToInt(SubSeq(agent_response, i + 2, j))]>>
               /\ parsed[1].row_count = StrToInt(SubSeq(agent_response, i + 2, j))

C6_Witness ==
    /\ parsed # Absent
    /\ HasAt(agent_response, 1, Chars("[(42,)]Final Answer: is 138."))
    /\ parsed[1].rows = <<[result |-> 42]>>
    /\ parsed[1].row_count = 42

HasDigit(s) == \E i \in 1..Len(s) : IsDigit(s[i])

\* C7: _parse_agent_results raises for no trace, and a trace that no
\* extraction strategy matches (no integer literal, no numeric first line)
\* yields the single row carrying the stripped trace with response_type
\* 'fallback_query' and row_count 0.
C7_ParsingTotal ==
    parsed # Absent =>
        /\ ~parsed[1].raised
        /\ ( /\ ~HasDigit(agent_response)
             /\ ~IsDigitStr(Strip(Head(SplitLines(Strip(agent_response))))) )
           => /\ parsed[1].rows =
                     <<[final_answer_text |-> Strip(agent_response),
                        response_type |-> "fallback_query"]>>
              /\ parsed[1].row_count = 0

\* the text after the first "Final Answer:" marker, stripped
FinalAnswerText(s) == Strip(SubSeq(s, Find(s, Chars("Final Answer:")) + 13, Len(s)))

Min(a, b) == IF a < b THEN a ELSE b

\* the final-answer text has the top/cities cue and an "are X, Y, ... and Z." clause
HasTopCitiesClause(fa) ==
    /\ Contains(Lower(fa), Chars("top"))
    /\ Contains(Lower(fa), Chars("cities"))
    /\ SearchCitiesClause(fa) # None

\* the non-blank names of the "are ... ." clause, split on commas and "and"
ClauseNames(fa) == StripNonEmpty(SplitCities(SearchCitiesClause(fa)))

\* the ('name', count) tuples of the first bracketed tuple list of the trace
TraceTuples(s) ==
    IF SearchBracketList(s) = None THEN <<>>
    ELSE FindAllCityCount(SearchBracketList(s), 1)

\* C8 as stated: with the top/cities cue, an "are ... ." clause naming at
\* least one city and a bracketed
\* list of (name, count) tuples in the trace, the names extracted from the
\* clause are paired positionally with the counts of the tuples: one ranked row
\* (rank k, name, count) per pair, then one summary row with response_type
\* 'complex_query' and total_results n, and row_count n = number of pairs.
C8_NamesPairedWithCounts ==
    ( /\ parsed # Absent
      /\ Contains(agent_response, Chars("Final Answer:"))
      /\ HasTopCitiesClause(FinalAnswerText(agent_response))
      /\ ClauseNames(FinalAnswerText(agent_response)) # <<>>
      /\ TraceTuples(agent_response) # <<>> )
    => LET fa == FinalAnswerText(agent_response)
           names == ClauseNames(fa)
           tuples == TraceTuples(agent_response)
           n == Min(Len(names), Len(tuples))
           rows == parsed[1].rows
       IN /\ ~parsed[1].raised
          /\ parsed[1].row_count = n
          /\ Len(rows) = n + 1
          /\ \A k \in 1..n :
                /\ rows[k].rank = k
                /\ rows[k].city = names[k]
                /\ rows[k].count = StrToInt(tuples[k][2])
          /\ rows[n + 1].response_type = "complex_query"
          /\ rows[n + 1].total_results = n

\* C8 (amended): when, in addition, the trace has no [(N,)] literal, the
\* final-answer text has no enumerated "N. Name - Count" item and the clause
\* names at least one city, the ranked rows are the ('name', count) tuples of
\* the first bracketed tuple list of the trace, in tuple order, name and count
\* both taken from the tuple; then one summary row with response_type
\* 'complex_query' and total_results n; row_count n = number of tuples.
C8_RankedRowsFromTuples ==
    ( /\ parsed # Absent
      /\ Contains(agent_response, Chars("Final Answer:"))
      /\ HasTopCitiesClause(FinalAnswerText(agent_response))
      /\ TraceTuples(agent_response) # <<>>
      /\ ~HasTupleLiteral(agent_response)
      /\ FindAllComplex(FinalAnswerText(agent_response), 1) = <<>>
      /\ ClauseNames(FinalAnswerText(agent_response)) # <<>> )
    => LET tuples == TraceTuples(agent_response)
           n == Len(tuples)
           rows == parsed[1].rows
       IN /\ ~parsed[1].raised
          /\ parsed[1].row_count = n
          /\ Len(rows) = n + 1
          /\ \A k \in 1..n :
                /\ rows[k].rank = k
                /\ rows[k].city = Strip(tuples[k][1])
                /\ rows[k].count = StrToInt(tuples[k][2])
          /\ rows[n + 1].response_type = "complex_query"
          /\ rows[n + 1].total_results = n
          /\ rows[n + 1].final_answer_text = FinalAnswerText(agent_response)

C8_Witness ==
    /\ parsed # Absent
    /\ agent_response = Chars("[('A', 20), ('B', 18)]Final Answer: The top 2 cities are A and B.")
    /\ parsed[1].row_count = 2
    /\ Len(parsed[1].rows) = 3
    /\ parsed[1].rows[2].city = <<"B">>
    /\ parsed[1].rows[2].count = 18

\* the last maximal run of digits of s (s has a digit)
LastIntLiteral(s) ==
    LET b == CHOOSE j \in 1..Len(s) : IsDigit(s[j]) /\ \A k \in (j + 1)..Len(s) : ~IsDigit(s[k])
        a == CHOOSE i \in 1..b :
                 /\ \A k \in i..b : IsDigit(s[k])
                 /\ (i = 1 \/ ~IsDigit(s[i - 1]))
    IN SubSeq(s, a, b)

\* C9: a trace with a "Final Answer:" block that matches neither ranked form
\* and no [(N,)] literal parses to the row {result: N} plus one summary row
\* with response_type 'simple_query', row_count N, for N the last integer
\* literal of the final-answer text.
C9_LastIntegerOfFinalAnswer ==
    ( /\ parsed # Absent
      /\ Contains(agent_response, Chars("Final Answer:"))
      /\ ~HasTupleLiteral(agent_response)
      /\ FindAllComplex(FinalAnswerText(agent_response), 1) = <<>>
      /\ TopCitiesMatches(agent_response, FinalAnswerText(agent_response)) = <<>>
      /\ HasDigit(FinalAnswerText(agent_response)) )
    => LET fa == FinalAnswerText(agent_response)
           N == StrToInt(LastIntLiteral(fa))
       IN /\ ~parsed[1].raised
          /\ parsed[1].rows = <<[result |-> N],
                                [final_answer_text |-> fa, response_type |-> "simple_query"]>>
          /\ parsed[1].row_count = N

C9_Witness ==
    /\ parsed # Absent
    /\ agent_response = Chars("Final Answer: The top 2 cities are A and B. is 138.")
    /\ parsed[1].rows[1] = [result |-> 138]
    /\ parsed[1].row_count = 138

\* the final-answer text of the trace matches both ranked forms: the top/cities
\* cue with an "are ... ." clause backed by a tuple list in the trace, and at
\* least one enumerated "N. Name - Count" item; there is no [(N,)] literal
BothRankedForms ==
    /\ parsed # Absent
    /\ Contains(agent_response, Chars("Final Answer:"))
    /\ ~HasTupleLiteral(agent_response)
    /\ HasTopCitiesClause(FinalAnswerText(agent_response))
    /\ ClauseNames(FinalAnswerText(agent_response)) # <<>>
    /\ TraceTuples(agent_response) # <<>>
    /\ FindAllComplex(FinalAnswerText(agent_response), 1) # <<>>

\* C16 as stated: when the final-answer text matches both the top/cities "are
\* ... ." form and the enumerated "N. Name - Count" form, the ranked rows and
\* row_count come from the tuple list of the trace, not from the enumerated
\* items.
C16_TupleListBeforeEnumerated ==
    BothRankedForms
    => LET tuples == TraceTuples(agent_response)
           n == Len(tuples)
           rows == parsed[1].rows
       IN /\ parsed[1].row_count = n
          /\ Len(rows) = n + 1
          /\ \A k \in 1..n :
                /\ rows[k].city = Strip(tuples[k][1])
                /\ rows[k].count = StrToInt(tuples[k][2])

\* C16 (amended): in a trace with a "Final Answer:" block and no [(N,)]
\* literal, the enumerated "N. Name - Count" items of the final-answer text
\* are tried before the top/cities form: whenever the text has such an item,
\* also when it matches the top/cities form too, the ranked rows are the
\* items in order of appearance (rank k, name and count of the k-th item),
\* followed by one summary row with response_type 'complex_query' and
\* total_results n, and row_count n = the number of items; the tuple list of
\* the trace is not used.
C16_EnumeratedBeforeTupleList ==
    ( /\ parsed # Absent
      /\ Contains(agent_response, Chars("Final Answer:"))
      /\ ~HasTupleLiteral(agent_response)
      /\ FindAllComplex(FinalAnswerText(agent_response), 1) # <<>> )
    => LET fa == FinalAnswerText(agent_response)
           items == FindAllComplex(fa, 1)
           n == Len(items)
           rows == parsed[1].rows
       IN /\ ~parsed[1].raised
          /\ parsed[1].row_count = n
          /\ Len(rows) = n + 1
          /\ \A k \in 1..n :
                /\ rows[k].rank = k
                /\ rows[k].city = Strip(items[k][1])
                /\ rows[k].count = StrToInt(items[k][2])
          /\ rows[n + 1] = [final_answer_text |-> fa, response_type |-> "complex_query",
                            total_results |-> n]

C16_Witness ==
    /\ BothRankedForms
    /\ agent_response = Chars("[('A', 20), ('B', 18)]Final Answer: Top cities are A, B.\n1. C - 7")
    /\ parsed[1].row_count = 1
    /\ parsed[1].rows[1].city = <<"C">>
    /\ parsed[1].rows[1].count = 7

\* the row the terminal fallback of lines 559-562 returns
FallbackRows(response) ==
    <<[final_answer_text |-> Strip(response), response_type |-> "fallback_query"]>>

\* some row of the parse carries the response_type
HasResponseType(p, type) ==
    \E i \in 1..Len(p.rows) :
        "response_type" \in DOMAIN p.rows[i] /\ p.rows[i].response_type = type

\* C26 as stated: past the last-integer rule nothing but the terminal
\* fallback is reachable.  No parse carries response_type
\* 'observation_query', and the fallback_query row is returned exactly for
\* the traces without an integer literal: every such trace gets it (neither
\* the 'final answer', the 'result was', the numeric-first-line nor the
\* Observation branch takes it), and no other trace does.
C26_FallbackExactlyWithoutInteger ==
    parsed # Absent =>
        /\ ~HasResponseType(parsed[1], "observation_query")
        /\ HasResponseType(parsed[1], "fallback_query") => ~HasDigit(agent_response)
        /\ ~HasDigit(agent_response)
           => /\ ~parsed[1].raised
              /\ parsed[1].rows = FallbackRows(agent_response)
              /\ parsed[1].row_count = 0

\* what holds of the parses that return: none is an observation_query, and
\* the fallback_query row is returned exactly for the traces without an
\* integer literal
C26_ReturnedFallbackWithoutInteger ==
    (parsed # Absent /\ ~parsed[1].raised) =>
        /\ ~HasResponseType(parsed[1], "observation_query")
        /\ (parsed[1].rows = FallbackRows(agent_response)) <=> ~HasDigit(agent_response)


----------------------------------------------------------------------------
(* _extract_sql_from_response *)

\* w at position i of s under re.IGNORECASE
HasAtCI(s, i, w) ==
    /\ i >= 1
    /\ i + Len(w) - 1 <= Len(s)
    /\ \A k \in 1..Len(w) : ToUpper(s[i + k - 1]) = ToUpper(w[k])

\* the Markdown code fence: three U+0060 characters
Fence == <<"BACKTICK", "BACKTICK", "BACKTICK">>

MinOf(S) == CHOOSE x \in S : \A y \in S : x <= y

\* the first position >= i where w occurs in s, 0 when there is none
FindFrom(s, i, w) ==
    LET hits == {j \in i..(Len(s) - Len(w) + 1) : HasAt(s, j, w)}
    IN IF hits = {} THEN 0 ELSE MinOf(hits)

\* (SELECT.*?)(?:\n|$) with SELECT at position i: up to the next newline or the end
SelectToLineEnd(s, i) ==
    LET n == NextChar(s, i + 6, "\n")
    IN SubSeq(s, i, IF n = 0 THEN Len(s) ELSE n - 1)

\* the pattern: fence, sql, newline, (.*?), newline, fence
FencedSqlMatch(s) ==
    LET starts == {i \in 1..Len(s) : HasAtCI(s, i, (Fence \o Chars("sql\n")))}
    IN IF starts = {} THEN None
       ELSE LET i == MinOf(starts)
                j == FindFrom(s, i + 7, (Chars("\n") \o Fence))
            IN IF j = 0 THEN None ELSE SubSeq(s, i + 7, j - 1)

\* the pattern: fence, newline, (SELECT.*?), newline, fence
FencedSelectMatch(s) ==
    LET starts == {i \in 1..Len(s) :
                      HasAt(s, i, (Fence \o Chars("\n"))) /\ HasAtCI(s, i + 4, Chars("SELECT"))}
    IN IF starts = {} THEN None
       ELSE LET i == MinOf(starts)
                j == FindFrom(s, i + 10, (Chars("\n") \o Fence))
            IN IF j = 0 THEN None ELSE SubSeq(s, i + 4, j - 1)

\* r"Action Input:\s*(SELECT.*?)(?:\n|$)"
ActionInputMatch(s) ==
    LET starts == {i \in 1..Len(s) :
                      /\ HasAtCI(s, i, Chars("Action Input:"))
                      /\ HasAtCI(s, RunEnd(IsSpace, s, i + 13) + 1, Chars("SELECT"))}
    IN IF starts = {} THEN None
       ELSE SelectToLineEnd(s, RunEnd(IsSpace, s, MinOf(starts) + 13) + 1)

\* r"(SELECT.*?)(?:\n|$)"
BareSelectMatch(s) ==
    LET starts == {i \in 1..Len(s) : HasAtCI(s, i, Chars("SELECT"))}
    IN IF starts = {} THEN None ELSE SelectToLineEnd(s, MinOf(starts))

not_found == Chars("SQL query not found in response")

\* lines 310-325: the first pattern that matches, group(1) stripped
_extract_sql_from_response(s) ==
    IF FencedSqlMatch(s) # None THEN Strip(FencedSqlMatch(s))
    ELSE IF FencedSelectMatch(s) # None THEN Strip(FencedSelectMatch(s))
    ELSE IF ActionInputMatch(s) # None THEN Strip(ActionInputMatch(s))
    ELSE IF BareSelectMatch(s) # None THEN Strip(BareSelectMatch(s))
    ELSE not_found

----------------------------------------------------------------------------
(* _fix_case_sensitivity_issues *)

IsCased(c) == c \in LowerSet \/ c \in UpperSet
AsciiLower == {LowerLetters[i] : i \in 1..26}
NotQuote(c) == c # "'"

\* str.title(): a cased character is upper-cased after an uncased one (or at
\* the start) and lower-cased after a cased one
Title(s) ==
    [i \in 1..Len(s) |->
        IF IsCased(s[i])
        THEN IF i = 1 \/ ~IsCased(s[i - 1]) THEN ToUpper(s[i]) ELSE ToLower(s[i])
        ELSE s[i]]

\* str.islower(): some cased character and no upper-case one
IsLowerStr(s) ==
    /\ \E i \in 1..Len(s) : s[i] \in LowerSet
    /\ \A i \in 1..Len(s) : s[i] \notin UpperSet

ColumnName == Chars("CIDADE_RESIDENCIA_PACIENTE")

\* CIDADE_RESIDENCIA_PACIENTE\s*=\s* at position i: the position after it, 0
\* when it does not match
ColumnEqEnd(s, i, ignore_case) ==
    IF (IF ignore_case THEN HasAtCI(s, i, ColumnName) ELSE HasAt(s, i, ColumnName))
    THEN LET a == RunEnd(IsSpace, s, i + Len(ColumnName)) + 1
         IN IF a <= Len(s) /\ s[a] = "=" THEN RunEnd(IsSpace, s, a + 1) + 1 ELSE 0
    ELSE 0

NoSub == [end |-> 0, city |-> <<>>]

\* CIDADE_RESIDENCIA_PACIENTE\s*=\s*FUNC\s*\(\s*'([^']+)'\s*\) at position i,
\* under re.IGNORECASE: the last position of the match and group(1)
FuncCallMatchAt(s, i, func) ==
    LET p == ColumnEqEnd(s, i, TRUE)
    IN IF p = 0 \/ ~HasAtCI(s, p, func) THEN NoSub
       ELSE LET q == RunEnd(IsSpace, s, p + Len(func)) + 1
            IN IF q > Len(s) \/ s[q] # "(" THEN NoSub
               ELSE LET r == RunEnd(IsSpace, s, q + 1) + 1
                    IN IF r > Len(s) \/ s[r] # "'" THEN NoSub
                       ELSE LET e == RunEnd(NotQuote, s, r + 1)
                                t == RunEnd(IsSpace, s, e + 2) + 1
                            IN IF e < r + 1 \/ e + 1 > Len(s) THEN NoSub
                               ELSE IF t > Len(s) \/ s[t] # ")" THEN NoSub
                               ELSE [end |-> t, city |-> SubSeq(s, r + 1, e)]

\* CIDADE_RESIDENCIA_PACIENTE\s*=\s*'([a-z][^']*?)' at position i, case-sensitive
DirectMatchAt(s, i) ==
    LET p == ColumnEqEnd(s, i, FALSE)
    IN IF p = 0 \/ p + 1 > Len(s) \/ s[p] # "'" \/ s[p + 1] \notin AsciiLower THEN NoSub
       ELSE LET e == RunEnd(NotQuote, s, p + 1)
            IN IF e + 1 > Len(s) THEN NoSub
               ELSE [end |-> e + 1, city |-> SubSeq(s, p + 1, e)]

\* f"CIDADE_RESIDENCIA_PACIENTE = '{proper_city}'"
ProperCity(city_name) == ColumnName \o Chars(" = '") \o Title(city_name) \o <<"'">>

\* re.sub(pattern_upper / pattern_lower, replacement, s, flags=re.IGNORECASE)
\* from position i on: the leftmost match is replaced, the scan resumes after it
RECURSIVE SubFuncCall(_, _, _)
SubFuncCall(s, i, func) ==
    LET hits == {j \in i..Len(s) : FuncCallMatchAt(s, j, func).end # 0}
    IN IF hits = {} THEN SubSeq(s, i, Len(s))
       ELSE LET m == FuncCallMatchAt(s, MinOf(hits), func)
            IN SubSeq(s, i, MinOf(hits) - 1) \o ProperCity(m.city)
               \o SubFuncCall(s, m.end + 1, func)

\* re.sub(pattern_direct, replacement_direct, s) from position i on
RECURSIVE SubDirect(_, _)
SubDirect(s, i) ==
    LET hits == {j \in i..Len(s) : DirectMatchAt(s, j).end # 0}
    IN IF hits = {} THEN SubSeq(s, i, Len(s))
       ELSE LET j == MinOf(hits)
                m == DirectMatchAt(s, j)
            IN SubSeq(s, i, j - 1)
               \o (IF IsLowerStr(m.city) THEN ProperCity(m.city) ELSE SubSeq(s, j, m.end))
               \o SubDirect(s, m.end + 1)

\* lines 327-367
_fix_case_sensitivity_issues(sql) ==
    IF sql = <<>> \/ sql = not_found THEN sql
    ELSE SubDirect(SubFuncCall(SubFuncCall(sql, 1, Chars("UPPER")), 1, Chars("LOWER")), 1)

----------------------------------------------------------------------------
(* process_natural_language_query and process_single_query *)

max_query_length == 1000

\* the except branches: QueryResult(sql_query="", results=[], success=False,
\* row_count=0, error_message=error_info.message)
FailedResult(message) == QueryResult(<<>>, <<>>, FALSE, 0, message, Absent)

\* lines 172-190: the except branch of process_natural_language_query; the
\* error code is the category code "QP" followed by the clock's time stamp
RequestFailed(message) ==
    QueryResult(<<>>, <<>>, FALSE, 0, message, Some([error_code |-> Chars("QP")]))

\* lines 162-166: the metadata of a request that succeeded
RequestMetadata(trace) ==
    Some([agent_response |-> trace, schema_context_used |-> TRUE, langchain_agent |-> TRUE])

\* str(ValueError) of int(text)
IntErrorMessage(text) ==
    Chars("invalid literal for int() with base 10: '") \o text \o <<"'">>

\* the result of a request whose SQL was re-executed, reporting the error of
\* a failed re-execution
CorrectedRequest_KeepsError(sql, p, e, trace) ==
    [ result |-> QueryResult(sql,
                     IF e.result.success THEN e.result.results ELSE p.rows,
                     TRUE,
                     IF e.result.success THEN e.result.row_count ELSE p.row_count,
                     e.result.error_message, RequestMetadata(trace)),
      corrected |-> Some(e.result),
      handed |-> e.handed ]

\* the result of a request whose SQL was re-executed, taking the rows of the
\* re-execution whether it succeeded or not
CorrectedRequest_DropsParsed(sql, p, e, trace) ==
    [ result |-> QueryResult(sql, e.result.results, TRUE, e.result.row_count,
                             None, RequestMetadata(trace)),
      corrected |-> Some(e.result),
      handed |-> e.handed ]

\* lines 147-165: e is what execute_sql_query(sql) gave; its rows replace the
\* parsed ones only when it succeeded, and the request succeeds either way
CorrectedRequest(sql, p, e, trace) ==
    [ result |-> QueryResult(sql,
                     IF e.result.success THEN e.result.results ELSE p.rows,
                     TRUE,
                     IF e.result.success THEN e.result.row_count ELSE p.row_count,
                     None, RequestMetadata(trace)),
      corrected |-> Some(e.result),
      handed |-> e.handed ]

\* lines 145-169: sql is the normalised SQL, p the parsed rows
FinishRequest(sql, original_sql, p, trace, db) ==
    IF sql # original_sql
    THEN CorrectedRequest(sql, p, execute_sql_query(sql, db), trace)
    ELSE [ result |-> QueryResult(sql, p.rows, TRUE, p.row_count, None, RequestMetadata(trace)),
           corrected |-> Absent, handed |-> <<>> ]

\* lines 139-169, with the except branch of lines 172-190 for a parser that raises
ProcessTrace(original_sql, p, trace, db) ==
    IF p.raised
    THEN [ result |-> RequestFailed(IntErrorMessage(Strip(Head(SplitLines(Strip(trace)))))),
           corrected |-> Absent, handed |-> <<>> ]
    ELSE FinishRequest(_fix_case_sensitivity_issues(original_sql), original_sql, p, trace, db)

\* lines 138-190: process_natural_language_query from the call of agent.run
\* on, when agent.run raises error (None: the agent returns trace) and the
\* database behaves as db.  result is the QueryResult returned, corrected the
\* QueryResult of the re-execution (if one ran), handed what reached
\* cursor.execute.
process_natural_language_query(error, trace, db) ==
    IF error # None
    THEN [ result |-> RequestFailed(error), corrected |-> Absent, handed |-> <<>> ]
    ELSE ProcessTrace(_extract_sql_from_response(trace), _parse_agent_results(trace),
                      trace, db)

\* InputValidator.validate_query_length
validate_query_length(text, max_length) == Len(text) <= max_length

\* InputValidator.sanitize_input
sanitize_input(text) == Strip(text)

TooLongMessage ==
    Chars("Query too long (max ") \o IntToStr(max_query_length) \o Chars(" characters)")

MaxProcFrags == 2

ProcFrags ==
    { Chars("Action Input: SELECT COUNT(*) FROM t WHERE CIDADE_RESIDENCIA_PACIENTE = 'porto alegre'\n"),
      (Fence \o Chars("sql\nDROP TABLE t\n") \o Fence),
      Chars("select 1; drop table t where cidade_residencia_paciente = LOWER('iju")
          \o <<"i_acute">> \o Chars("')"),
      (Fence \o Chars("\nselect 2\n") \o Fence),
      Chars("SELECT "),
      Chars("CIDADE_RESIDENCIA_PACIENTE = UPPER('x')"),
      Chars("[(42,)]"),
      Chars("Final Answer: 138"),
      <<"SUP2">>,
      <<"SUP2", "\n">>,
      Chars("\n") }

ProcessTraces == {Concat(fs) : fs \in SeqsUpTo(ProcFrags, MaxProcFrags)}

\* what agent.run raises with, as str(e)
AgentErrors == { Chars("Agent stopped due to iteration limit"), <<>> }

\* what get_schema_context raises with, as str(e)
SchemaErrors == { Chars("unable to open database file") }

UserQueries ==
    { Chars(" Quantos pacientes? "),
      [i \in 1..max_query_length |-> "q"],
      [i \in 1..(max_query_length + 1) |-> "q"] }

\* the question of the second caller, and what its agent run gives: the
\* error it raises with, or None and the trace it returns
OtherQuery == Chars("Quantas mortes?\n")
OtherOutcomes ==
    { [error |-> Chars("Agent stopped due to iteration limit"), trace |-> <<>>],
      [error |-> None, trace |-> Chars("Final Answer: 138")] }

\* the services before a request whose agent, when it returns, returns one
\* of traces
ProcessInitOver(traces) ==
    /\ user_query \in UserQueries
    /\ \/ schema_error \in SchemaErrors /\ agent_error = None /\ agent_response = <<>>
       \/ schema_error = None /\ agent_error \in AgentErrors /\ agent_response = <<>>
       \/ schema_error = None /\ agent_error = None /\ agent_response \in traces
    /\ request = IdleRequest
    /\ other_request = IdleRequest
    /\ prompted_query = Absent
    /\ query_result = Absent
    /\ corrected_result = Absent
    /\ single_result = Absent
    /\ query_history = <<>>
    /\ query_count = 0
    /\ sql_query = None
    /\ validation = Absent
    /\ exec_result = Absent
    /\ exec_pc = "idle"
    /\ cursor_log = <<>>
    /\ parsed = Absent
    /\ MemoryIdle
    /\ AuxIdle

ProcessInit == ProcessInitOver(ProcessTraces)

ProcessUnchanged ==
    UNCHANGED <<user_query, agent_error, schema_error, agent_response,
                sql_query, validation, exec_result, exec_pc, parsed,
                memoryVars, auxVars>>

\* lines 126-138 of process_natural_language_query(QueryRequest(question)),
\* entered through op: get_schema_context raises and lines 172-190 append
\* the failed result and return it (after is where the caller stands then),
\* or the prompt built from the question is handed to agent.run, where the
\* call waits
StartRequest(op, question, after) ==
    IF schema_error # None
    THEN /\ query_result' = Some(RequestFailed(schema_error))
         /\ query_history' = Append(query_history, RequestFailed(schema_error))
         /\ request' = [request EXCEPT !.op = op, !.pc = after]
         /\ UNCHANGED prompted_query
    ELSE /\ prompted_query' = Some(question)
         /\ request' = [request EXCEPT !.op = op, !.pc = "agent", !.prompted = question]
         /\ UNCHANGED <<query_result, query_history>>

\* a caller runs process_natural_language_query(QueryRequest(user_query)),
\* up to the call of agent.run on line 138
ProcessNaturalLanguageQuery ==
    /\ user_query # None
    /\ request.pc = "idle"
    /\ StartRequest("process_natural_language_query", user_query, "done")
    /\ UNCHANGED <<corrected_result, single_result, cursor_log, query_count, other_request>>
    /\ ProcessUnchanged

\* a caller runs process_single_query(user_query), lines 113-139, up to the
\* call of agent.run inside process_natural_language_query
ProcessSingleQuery ==
    /\ user_query # None
    /\ request.pc = "idle"
    /\ IF ~validate_query_length(user_query, max_query_length)
       THEN /\ single_result' = Some(FailedResult(TooLongMessage))
            /\ request' = [request EXCEPT !.op = "process_single_query", !.pc = "done"]
            /\ UNCHANGED <<prompted_query, query_result, query_history>>
       ELSE /\ StartRequest("process_single_query", sanitize_input(user_query), "load")
            /\ UNCHANGED single_result
    /\ UNCHANGED <<corrected_result, cursor_log, query_count, other_request>>
    /\ ProcessUnchanged

\* where a caller stands when process_natural_language_query has returned
AfterRequest(op) == IF op = "process_single_query" THEN "load" ELSE "done"

\* lines 155-190: process_natural_language_query builds its result r,
\* appends it to the history and returns it
ReturnRequest(r) ==
    /\ query_result' = Some(r.result)
    /\ corrected_result' = r.corrected
    /\ query_history' = Append(query_history, r.result)
    /\ request' = [request EXCEPT !.pc = AfterRequest(request.op)]

\* agent.run returns the trace or raises, and lines 139-152 run: to the
\* return of process_natural_language_query, or, when the normalised SQL is
\* re-executed and gets as far as the cursor, to the call of cursor.execute
\* (line 249 of execute_sql_query), where the request waits for the database
AgentRun ==
    /\ request.pc = "agent"
    /\ \E db \in DbOutcomes :
          \E r \in {process_natural_language_query(agent_error, agent_response, db)} :
             IF r.handed # <<>>
             THEN /\ cursor_log' = cursor_log \o r.handed
                  /\ request' = [request EXCEPT !.pc = "execute"]
                  /\ UNCHANGED <<query_result, corrected_result, query_history>>
             ELSE /\ ReturnRequest(r)
                  /\ UNCHANGED cursor_log
    /\ UNCHANGED <<prompted_query, single_result, query_count, other_request>>
    /\ ProcessUnchanged

\* cursor.execute of the re-execution returns or raises; lines 249-283 of
\* execute_sql_query and lines 152-190 run to the return of
\* process_natural_language_query
ReexecuteSql ==
    /\ request.pc = "execute"
    /\ \E db \in AfterConnect :
          ReturnRequest(process_natural_language_query(agent_error, agent_response, db))
    /\ UNCHANGED <<cursor_log, prompted_query, single_result, query_count, other_request>>
    /\ ProcessUnchanged

\* orchestrator line 140, self._query_count += 1: the load of the attribute
LoadQueryCount ==
    /\ request.pc = "load"
    /\ request' = [request EXCEPT !.pc = "store", !.count_read = query_count]
    /\ UNCHANGED <<prompted_query, query_result, corrected_result, single_result,
                   cursor_log, query_history, query_count, other_request>>
    /\ ProcessUnchanged

\* orchestrator lines 140-142: the store of the sum, and the return of the
\* result of process_natural_language_query
StoreQueryCount ==
    /\ request.pc = "store"
    /\ query_count' = request.count_read + 1
    /\ single_result' = query_result
    /\ request' = [request EXCEPT !.pc = "done"]
    /\ UNCHANGED <<prompted_query, query_result, corrected_result,
                   cursor_log, query_history, other_request>>
    /\ ProcessUnchanged

OtherUnchanged ==
    UNCHANGED <<request, prompted_query, query_result, corrected_result, single_result>>

\* a second caller runs process_single_query(OtherQuery) while the first
\* request is under way: lines 113-139, up to the call of agent.run, or to
\* the return of process_natural_language_query when get_schema_context raises
OtherProcessSingleQuery ==
    /\ user_query # None
    /\ other_request.pc = "idle"
    /\ IF schema_error # None
       THEN /\ query_history' = Append(query_history, RequestFailed(schema_error))
            /\ other_request' = [other_request EXCEPT !.op = "process_single_query",
                                                      !.pc = "load"]
       ELSE /\ other_request' = [other_request EXCEPT !.op = "process_single_query",
                                                      !.pc = "agent",
                                                      !.prompted = sanitize_input(OtherQuery)]
            /\ UNCHANGED query_history
    /\ UNCHANGED <<cursor_log, query_count>>
    /\ OtherUnchanged
    /\ ProcessUnchanged

\* agent.run of the second caller returns or raises, and lines 139-190 run;
\* none of OtherOutcomes holds SQL that the normaliser changes, so nothing is
\* re-executed and the call does not wait for the database
OtherAgentRun ==
    /\ other_request.pc = "agent"
    /\ \E o \in OtherOutcomes, db \in DbOutcomes :
          \E r \in {process_natural_language_query(o.error, o.trace, db)} :
             /\ r.handed = <<>>
             /\ query_history' = Append(query_history, r.result)
    /\ other_request' = [other_request EXCEPT !.pc = "load"]
    /\ UNCHANGED <<cursor_log, query_count>>
    /\ OtherUnchanged
    /\ ProcessUnchanged

\* orchestrator line 140 in the second caller: the load of _query_count
OtherLoadQueryCount ==
    /\ other_request.pc = "load"
    /\ other_request' = [other_request EXCEPT !.pc = "store", !.count_read = query_count]
    /\ UNCHANGED <<cursor_log, query_history, query_count>>
    /\ OtherUnchanged
    /\ ProcessUnchanged

\* orchestrator lines 140-142 in the second caller: the store, and the return
OtherStoreQueryCount ==
    /\ other_request.pc = "store"
    /\ query_count' = other_request.count_read + 1
    /\ other_request' = [other_request EXCEPT !.pc = "done"]
    /\ UNCHANGED <<cursor_log, query_history>>
    /\ OtherUnchanged
    /\ ProcessUnchanged

ProcessNext ==
    \/ ProcessNaturalLanguageQuery
    \/ ProcessSingleQuery
    \/ AgentRun
    \/ ReexecuteSql
    \/ LoadQueryCount
    \/ StoreQueryCount

OtherNext ==
    \/ OtherProcessSingleQuery
    \/ OtherAgentRun
    \/ OtherLoadQueryCount
    \/ OtherStoreQueryCount

\* two callers at the same time, the first with the traces of one fragment
RequestsInit == ProcessInitOver({Concat(fs) : fs \in SeqsUpTo(ProcFrags, 1)})
RequestsNext == ProcessNext \/ OtherNext
SpecRequests == RequestsInit /\ [][RequestsNext]_vars

SpecProcess == ProcessInit /\ [][ProcessNext]_vars

\* the query-processing service and the orchestrator together: direct
\* validation and execution of SQL, and the natural-language request path
ServiceInit == ValidateInit \/ ProcessInit
ServiceNext == ValidateNext \/ ProcessNext
SpecService == ServiceInit /\ [][ServiceNext]_vars

\* the SQL obtained from the agent trace, after normalisation
NormalizedSql(trace) == _fix_case_sensitivity_issues(_extract_sql_from_response(trace))

\* C3: whenever the SQL obtained from the agent trace (after normalisation)
\* is unsafe under validate_sql_query, process_natural_language_query
\* returns a failed QueryResult: success = false and error_message set.
C3_UnsafeSqlFailsRequest ==
    ( /\ query_result # Absent
      /\ agent_error = None
      /\ ~validate_sql_query(NormalizedSql(agent_response)).is_safe )
    => /\ ~query_result[1].success
       /\ query_result[1].error_message # None

\* the QueryResult invariant
ResultInvariant(r) ==
    /\ ~r.success => (r.error_message # None /\ r.results = <<>>)
    /\ r.success => r.error_message = None

\* C5: every QueryResult returned by process_natural_language_query,
\* execute_sql_query (called directly or for the re-execution) or
\* process_single_query has: success = false implies error_message present
\* and results empty; success = true implies error_message absent.
C5_QueryResultInvariant ==
    /\ query_result # Absent => ResultInvariant(query_result[1])
    /\ corrected_result # Absent => ResultInvariant(corrected_result[1])
    /\ single_result # Absent => ResultInvariant(single_result[1])
    /\ exec_result # Absent => ResultInvariant(exec_result[1])
    /\ \A k \in 1..Len(query_history) : ResultInvariant(query_history[k])

C5_Witness ==
    /\ single_result # Absent
    /\ corrected_result # Absent
    /\ ~corrected_result[1].success
    /\ corrected_result[1].error_message # None
    /\ single_result[1].success
    /\ single_result[1].error_message = None

\* the re-execution of a finished request whose trace holds original_sql,
\* normalised to sql: it ran at most once, exactly when sql differs from
\* original_sql, it reached the database only with safe SQL, and when it
\* succeeded the request returns its rows under the agent's trace
ReexecutionContract(original_sql, sql) ==
    /\ Len(cursor_log) <= 1
    /\ (corrected_result # Absent) <=> (sql # original_sql)
    /\ cursor_log # <<>>
       => /\ sql # original_sql
          /\ validate_sql_query(sql).is_safe
          /\ cursor_log = <<sql>>
    /\ (corrected_result # Absent /\ corrected_result[1].success)
       => /\ cursor_log = <<sql>>
          /\ query_result[1].success
          /\ query_result[1].sql_query = sql
          /\ query_result[1].results = corrected_result[1].results
          /\ query_result[1].row_count = corrected_result[1].row_count
          /\ query_result[1].metadata # Absent
          /\ query_result[1].metadata[1].agent_response = agent_response

ReexecutionOf(original_sql) ==
    ReexecutionContract(original_sql, _fix_case_sensitivity_issues(original_sql))

\* C20: within one process_natural_language_query request whose agent
\* returned a trace, the normalized SQL is re-executed at most once, exactly
\* when it differs from the originally extracted SQL, and reaches the
\* database only after validation reports it safe; when the re-execution
\* succeeds the returned rows and row_count are the freshly executed ones and
\* the metadata carries the agent's trace.
C20_ReexecutedWhenNormalizedDiffers ==
    (query_result # Absent /\ agent_error = None)
    => ReexecutionOf(_extract_sql_from_response(agent_response))

\* the same for the requests that got past the parsing of the trace
C20_ReexecutedWhenParsed ==
    (query_result # Absent /\ agent_error = None /\ query_result[1].success)
    => ReexecutionOf(_extract_sql_from_response(agent_response))

\* the keys of the metadata of a request that succeeded, lines 162-166
RequestMetadataKeys == {"agent_response", "schema_context_used", "langchain_agent"}

\* the request kept the rows p parsed from the trace
KeptParsed(p) ==
    /\ query_result[1].success
    /\ query_result[1].error_message = None
    /\ query_result[1].results = p.rows
    /\ query_result[1].row_count = p.row_count

\* the re-execution inside the request ran and failed
ReexecutionFailed ==
    /\ query_result # Absent
    /\ corrected_result # Absent
    /\ ~corrected_result[1].success

\* C21 as stated: when the re-execution of the normalized SQL fails, the
\* request succeeds with the rows and row_count parsed from the agent trace,
\* and its metadata records the failure (an entry beyond the agent's trace
\* and the two flags every successful request carries).
C21_FailureRecordedInMetadata ==
    ReexecutionFailed
    => /\ KeptParsed(_parse_agent_results(agent_response))
       /\ query_result[1].metadata # Absent
       /\ DOMAIN query_result[1].metadata[1] # RequestMetadataKeys

\* the part of C21 that the code keeps: the request succeeds with the parsed
\* rows; its metadata is that of any successful request
C21_ParsedRowsKept ==
    ReexecutionFailed
    => /\ KeptParsed(_parse_agent_results(agent_response))
       /\ query_result[1].metadata = RequestMetadata(agent_response)

\* a request whose agent returned a trace has succeeded
RequestSucceeded ==
    /\ query_result # Absent
    /\ agent_error = None
    /\ query_result[1].success

\* the rows of the request are those of a re-execution that succeeded
FreshRows ==
    /\ corrected_result # Absent
    /\ corrected_result[1].success
    /\ cursor_log = <<query_result[1].sql_query>>
    /\ query_result[1].results = corrected_result[1].results
    /\ query_result[1].row_count = corrected_result[1].row_count

\* the rows of the request are the rows p parsed from the agent trace
ParsedRows(p) ==
    /\ query_result[1].results = p.rows
    /\ query_result[1].row_count = p.row_count

\* the request reports sql, with the rows of its execution, or with the rows
\* p parsed from the trace when sql is the SQL of the agent
RowsOfReportedSql(original_sql, sql, p) ==
    /\ query_result[1].sql_query = sql
    /\ IF sql # original_sql
       THEN FreshRows
       ELSE corrected_result = Absent /\ ParsedRows(p)

\* the same, with the parsed rows also after a re-execution that failed
RowsOfReportedSqlOrParsed(original_sql, sql, p) ==
    /\ query_result[1].sql_query = sql
    /\ (corrected_result # Absent) <=> (sql # original_sql)
    /\ IF corrected_result # Absent /\ corrected_result[1].success
       THEN FreshRows
       ELSE ParsedRows(p)

RowsAsStated(original_sql, p) ==
    RowsOfReportedSql(original_sql, _fix_case_sensitivity_issues(original_sql), p)

RowsAsAmended(original_sql, p) ==
    RowsOfReportedSqlOrParsed(original_sql, _fix_case_sensitivity_issues(original_sql), p)

\* C30 as stated: a successful request reports the normalized SQL, with the
\* rows of its fresh execution, or, when the normalizer changed nothing, with
\* the rows parsed from the trace; normalized SQL that differs from the
\* agent's is never paired with rows that did not come from executing it.
C30_RowsOfReportedSql ==
    RequestSucceeded
    => RowsAsStated(_extract_sql_from_response(agent_response),
                    _parse_agent_results(agent_response))

\* C30, amended: a successful request reports the normalized SQL; its rows
\* are those of the fresh execution of exactly that SQL when the normalizer
\* changed the SQL and the re-execution succeeded, and the rows parsed from
\* the trace when the normalizer changed nothing or the re-execution failed.
C30_RowsOfReportedSqlOrParsed ==
    RequestSucceeded
    => RowsAsAmended(_extract_sql_from_response(agent_response),
                     _parse_agent_results(agent_response))

\* the normalizer changed the SQL ('porto alegre' to 'Porto Alegre'), the
\* re-execution failed, and the request succeeded with the row parsed from
\* the trace
C30_Witness ==
    /\ RequestSucceeded
    /\ ReexecutionFailed
    /\ HasAt(agent_response, Len(agent_response) - 6, Chars("[(42,)]"))
    /\ Contains(agent_response, Chars("'porto alegre'"))
    /\ Contains(query_result[1].sql_query, Chars("'Porto Alegre'"))
    /\ query_result[1].results = <<[result |-> 42]>>
    /\ query_result[1].row_count = 42

----------------------------------------------------------------------------
(* ConversationalResponseService: responses and the per-session memory *)

\* ConversationContext(session_id=...) after __post_init__
ConversationContext == [previous_queries |-> <<>>, conversation_history |-> <<>>]

MaxPreviousQueries == 10
MaxHistory == 5
MaxResponseChars == 200
MaxRowChars == 50

\* seq[-n:]
LastN(seq, n) == IF Len(seq) > n THEN SubSeq(seq, Len(seq) - n + 1, Len(seq)) ELSE seq
\* seq[:n]
FirstN(seq, n) == IF Len(seq) > n THEN SubSeq(seq, 1, n) ELSE seq

\* any(keyword in text for keyword in keywords)
AnyIn(keywords, text) == \E k \in 1..Len(keywords) : Contains(text, keywords[k])

statistical_keywords ==
    << Chars("m") \o <<"e_acute">> \o Chars("dia"), Chars("total"), Chars("soma"),
       Chars("count"), Chars("quantidade"),
       Chars("estat") \o <<"i_acute">> \o Chars("stica") >>
comparative_keywords ==
    << Chars("comparar"), Chars("versus"),
       Chars("diferen") \o <<"c_cedilla">> \o Chars("a"),
       Chars("maior"), Chars("menor"), Chars("ranking") >>
trend_keywords ==
    << Chars("tend") \o <<"e_circ">> \o Chars("ncia"),
       Chars("evolu") \o <<"c_cedilla">> \o <<"a_tilde">> \o Chars("o"),
       Chars("hist") \o <<"o_acute">> \o Chars("rico"),
       Chars("tempo"), Chars("crescimento"), Chars("ano") >>
geographic_keywords ==
    << Chars("estado"), Chars("munic") \o <<"i_acute">> \o Chars("pio"),
       Chars("regi") \o <<"a_tilde">> \o Chars("o"),
       Chars("cidade"), Chars("geografia"), Chars("mapa") >>

\* determine_prompt_type testing the keyword sets from the last to the first
determine_prompt_type_Reversed(question, has_error) ==
    IF has_error THEN "ERROR_EXPLANATION"
    ELSE IF AnyIn(geographic_keywords, Lower(question)) THEN "GEOGRAPHIC_ANALYSIS"
    ELSE IF AnyIn(trend_keywords, Lower(question)) THEN "TREND_ANALYSIS"
    ELSE IF AnyIn(comparative_keywords, Lower(question)) THEN "COMPARATIVE_ANALYSIS"
    ELSE IF AnyIn(statistical_keywords, Lower(question)) THEN "STATISTICAL_ANALYSIS"
    ELSE "BASIC_RESPONSE"

\* SUSPromptTemplateService.determine_prompt_type, lines 424-461; the result
\* is the name of the PromptType member
determine_prompt_type(question, has_error) ==
    IF has_error THEN "ERROR_EXPLANATION"
    ELSE IF AnyIn(statistical_keywords, Lower(question)) THEN "STATISTICAL_ANALYSIS"
    ELSE IF AnyIn(comparative_keywords, Lower(question)) THEN "COMPARATIVE_ANALYSIS"
    ELSE IF AnyIn(trend_keywords, Lower(question)) THEN "TREND_ANALYSIS"
    ELSE IF AnyIn(geographic_keywords, Lower(question)) THEN "GEOGRAPHIC_ANALYSIS"
    ELSE "BASIC_RESPONSE"

\* lines 190-196
_get_conversation_context(contexts, session_id) ==
    IF contexts[session_id] = Absent
    THEN [contexts EXCEPT ![session_id] = Some(ConversationContext)]
    ELSE contexts

\* lines 364-378
_summarize_results(sql_results) ==
    IF sql_results.is_none THEN Chars("Nenhum resultado")
    ELSE IF ~sql_results.is_list
    THEN Chars("Resultado ") \o <<"u_acute">> \o Chars("nico")
    ELSE IF Len(sql_results.rows) = 0 THEN Chars("Consulta sem resultados")
    ELSE IF Len(sql_results.rows) = 1
    THEN Chars("1 resultado: ") \o FirstN(sql_results.rows[1], MaxRowChars) \o Chars("...")
    ELSE IntToStr(Len(sql_results.rows)) \o Chars(" resultados encontrados")

\* lines 304-310; the timestamp is left out
Interaction(question, message, sql_results) ==
    [ query |-> question,
      response |-> IF Len(message) > MaxResponseChars
                   THEN FirstN(message, MaxResponseChars) \o Chars("...")
                   ELSE message,
      results_summary |-> _summarize_results(sql_results) ]

\* _update_conversation_context keeping the oldest entries ([:n] for [-n:])
_update_conversation_context_KeepsOldest(contexts, memory, session_id, question, message, sql_results) ==
    IF ~memory THEN contexts
    ELSE LET context == contexts[session_id][1]
         IN [contexts EXCEPT ![session_id] = Some(
                [ previous_queries |->
                      FirstN(Append(context.previous_queries, question), MaxPreviousQueries),
                  conversation_history |->
                      FirstN(Append(context.conversation_history,
                                    Interaction(question, message, sql_results)), MaxHistory) ])]

\* lines 286-314
_update_conversation_context(contexts, memory, session_id, question, message, sql_results) ==
    IF ~memory THEN contexts
    ELSE LET context == contexts[session_id][1]
         IN [contexts EXCEPT ![session_id] = Some(
                [ previous_queries |->
                      LastN(Append(context.previous_queries, question), MaxPreviousQueries),
                  conversation_history |->
                      LastN(Append(context.conversation_history,
                                   Interaction(question, message, sql_results)), MaxHistory) ])]

\* _calculate_confidence_score rating a long result list like a short one
_calculate_confidence_score_Flat(sql_results, has_error) ==
    IF has_error THEN 3
    ELSE IF sql_results.is_none THEN 5
    ELSE IF ~sql_results.is_list THEN 7
    ELSE IF Len(sql_results.rows) = 0 THEN 6
    ELSE 8

\* lines 316-332, in tenths
_calculate_confidence_score(sql_results, has_error) ==
    IF has_error THEN 3
    ELSE IF sql_results.is_none THEN 5
    ELSE IF ~sql_results.is_list THEN 7
    ELSE IF Len(sql_results.rows) = 0 THEN 6
    ELSE IF Len(sql_results.rows) < 5 THEN 8
    ELSE 9

temporal_indicators ==
    << Chars("ano"), Chars("mes"), Chars("data"), Chars("periodo"), Chars("20"), Chars("19") >>
geographic_indicators ==
    << Chars("estado"), Chars("municipio"), Chars("cidade"), Chars("regiao"), Chars("uf") >>

\* lines 342-351
_has_temporal_data(sql_results) ==
    /\ sql_results.is_list
    /\ Len(sql_results.rows) > 0
    /\ AnyIn(temporal_indicators, Lower(sql_results.rows[1]))

\* lines 353-362
_has_geographic_data(sql_results) ==
    /\ sql_results.is_list
    /\ Len(sql_results.rows) > 0
    /\ AnyIn(geographic_indicators, Lower(sql_results.rows[1]))

\* lines 250-274: the suggestions of each prompt type
TypeSuggestions(prompt) ==
    IF prompt = "BASIC_RESPONSE"
    THEN << Chars("Gostaria de ver a evolu") \o <<"c_cedilla">> \o <<"a_tilde">> \o Chars("o temporal destes dados?"),
            Chars("Quer comparar com outras regi") \o <<"o_tilde">> \o Chars("es?"),
            Chars("Posso mostrar estat") \o <<"i_acute">> \o Chars("sticas detalhadas destes resultados") >>
    ELSE IF prompt = "STATISTICAL_ANALYSIS"
    THEN << Chars("Quer ver a distribui") \o <<"c_cedilla">> \o <<"a_tilde">> \o Chars("o geogr") \o <<"a_acute">> \o Chars("fica destes indicadores?"),
            Chars("Posso comparar com per") \o <<"i_acute">> \o Chars("odos anteriores"),
            Chars("Gostaria de an") \o <<"a_acute">> \o Chars("lise de tend") \o <<"e_circ">> \o Chars("ncias temporais?") >>
    ELSE IF prompt = "COMPARATIVE_ANALYSIS"
    THEN << Chars("Quer entender os fatores que explicam essas diferen") \o <<"c_cedilla">> \o Chars("as?"),
            Chars("Posso mostrar a evolu") \o <<"c_cedilla">> \o <<"a_tilde">> \o Chars("o temporal dessas compara") \o <<"c_cedilla">> \o <<"o_tilde">> \o Chars("es"),
            Chars("Gostaria de ver dados por estabelecimento espec") \o <<"i_acute">> \o Chars("fico?") >>
    ELSE IF prompt = "GEOGRAPHIC_ANALYSIS"
    THEN << Chars("Quer analisar fatores socioecon") \o <<"o_circ">> \o Chars("micos relacionados?"),
            Chars("Posso mostrar a evolu") \o <<"c_cedilla">> \o <<"a_tilde">> \o Chars("o temporal por regi") \o <<"a_tilde">> \o Chars("o"),
            Chars("Gostaria de comparar urbano vs rural?") >>
    ELSE <<>>

\* lines 241-284
_generate_suggestions(sql_results, prompt) ==
    FirstN(TypeSuggestions(prompt)
           \o (IF _has_temporal_data(sql_results)
               THEN << Chars("Posso criar an") \o <<"a_acute">> \o Chars("lise de tend") \o <<"e_circ">> \o Chars("ncias temporais") >>
               ELSE <<>>)
           \o (IF _has_geographic_data(sql_results)
               THEN << Chars("Posso gerar an") \o <<"a_acute">> \o Chars("lise de distribui") \o <<"c_cedilla">> \o <<"a_tilde">> \o Chars("o geogr") \o <<"a_acute">> \o Chars("fica") >>
               ELSE <<>>),
           3)

\* lines 226-239
_format_basic_error_response(error_message) ==
    Chars("\n        Desculpe, encontrei um problema ao processar sua consulta.")
    \o Chars("\n        \n        **Erro encontrado:** ") \o error_message
    \o Chars("\n        \n        **Sugest") \o <<"o_tilde">> \o Chars("es:**")
    \o Chars("\n        - Verifique se os nomes das tabelas e colunas est")
    \o <<"a_tilde">> \o Chars("o corretos")
    \o Chars("\n        - Confirme se os dados solicitados existem na base SUS")
    \o Chars("\n        - Tente reformular sua pergunta de forma mais espec")
    \o <<"i_acute">> \o Chars("fica")
    \o Chars("\n        \n        Posso ajud") \o <<"a_acute">>
    \o Chars("-lo a refinar sua consulta se necess") \o <<"a_acute">> \o Chars("rio.")
    \o Chars("\n        ")

\* "\n".join of the rows, each after a bullet
RECURSIVE BulletLines(_)
BulletLines(rows) ==
    IF rows = <<>> THEN <<>>
    ELSE <<"BULLET", " ">> \o Head(rows)
         \o (IF Len(rows) > 1 THEN <<"\n">> \o BulletLines(Tail(rows)) ELSE <<>>)

\* lines 418-438
_format_results_simple(sql_results) ==
    IF sql_results.is_none THEN Chars("Nenhum resultado encontrado")
    ELSE IF ~sql_results.is_list THEN <<"BULLET", " ">> \o sql_results.rows[1]
    ELSE IF Len(sql_results.rows) = 0
    THEN Chars("Consulta executada, mas n") \o <<"a_tilde">> \o Chars("o retornou dados")
    ELSE BulletLines(FirstN(sql_results.rows, 3))
         \o (IF Len(sql_results.rows) > 3
             THEN Chars("\n... e mais ") \o IntToStr(Len(sql_results.rows) - 3)
                  \o Chars(" resultados")
             ELSE <<>>)

\* a fallback response rated like a normal one
_generate_fallback_response_Scored(question, sql_results, error_message) ==
    [ fallback_used |-> TRUE,
      message |-> question \o _format_results_simple(sql_results) \o error_message,
      response_type |-> "BASIC_RESPONSE",
      confidence_score |-> _calculate_confidence_score(sql_results, FALSE),
      context_used |-> FALSE,
      suggestions |-> << Chars("Tente novamente em alguns instantes") >> ]

\* lines 380-416; processing_time is left out, and of the metadata all but
\* fallback_used
_generate_fallback_response(question, sql_results, error_message) ==
    [ fallback_used |-> TRUE,
      message |->
          Chars("\n        Consegui processar sua consulta, mas o sistema de resposta conversacional \n        est")
          \o <<"a_acute">> \o Chars(" temporariamente indispon") \o <<"i_acute">>
          \o Chars("vel.\n        \n        **Sua pergunta:** ") \o question
          \o Chars("\n        \n        **Resultados obtidos:** ")
          \o _format_results_simple(sql_results)
          \o Chars("\n        \n        **Status:** ") \o error_message
          \o Chars("\n        \n        Os dados foram processados com sucesso. Voc")
          \o <<"e_circ">>
          \o Chars(" pode tentar novamente em alguns instantes\n        para obter uma resposta mais detalhada e contextualizada.\n        "),
      response_type |-> "BASIC_RESPONSE",
      confidence_score |-> 4,
      context_used |-> FALSE,
      suggestions |-> << Chars("Tente novamente em alguns instantes") >> ]

\* lines 198-214: the enriched context; a key that is not set is empty here
_enhance_context(memory, context) ==
    IF memory /\ context.conversation_history # <<>>
    THEN [ session_context |-> TRUE,
           conversation_history |-> LastN(context.conversation_history, 3),
           previous_queries |-> LastN(context.previous_queries, 3) ]
    ELSE [ session_context |-> FALSE, conversation_history |-> <<>>, previous_queries |-> <<>> ]

\* A prompt stands for its text by the template the text is built from and
\* the values set into it; the SQL text, which no call here varies, is left out.

\* sus_prompt_template_service.py lines 345-389: the template is
\* self.templates[prompt_type]
get_prompt(prompt, question, sql_results, context, error_message) ==
    [ template |-> prompt, user_query |-> question, sql_results |-> sql_results,
      context |-> context, error_message |-> error_message ]

\* conversational_llm_service.py lines 93-146: the one sus_context text of the
\* LLM service, whatever the question
_build_conversational_prompt(question, sql_results, context) ==
    [ template |-> "sus_context", user_query |-> question, sql_results |-> sql_results,
      context |-> context, error_message |-> <<>> ]

\* generate_response handing the specialized prompt to the LLM on both paths
SubmittedPrompt_Specialized(contexts, memory, question, sql_results, session_id, error_message) ==
    get_prompt(determine_prompt_type(question, error_message # <<>>), question, sql_results,
               _enhance_context(memory,
                   _get_conversation_context(contexts, session_id)[session_id][1]),
               error_message)

\* lines 105-140: the prompt that reaches _call_llm.  With an error message it
\* is the specialized prompt (lines 216-224); without one,
\* generate_conversational_response builds its own (lines 87-91) and the
\* specialized prompt of lines 119-126 is not used.
SubmittedPrompt(contexts, memory, question, sql_results, session_id, error_message) ==
    IF error_message # <<>>
    THEN get_prompt(determine_prompt_type(question, TRUE), question, sql_results,
                    _enhance_context(memory,
                        _get_conversation_context(contexts, session_id)[session_id][1]),
                    error_message)
    ELSE _build_conversational_prompt(question, sql_results,
             _enhance_context(memory,
                 _get_conversation_context(contexts, session_id)[session_id][1]))

\* str(KeyError(session_id))
KeyErrorText(session_id) ==
    Chars("'") \o (IF session_id = "default" THEN Chars("default") ELSE Chars("s2")) \o Chars("'")

\* lines 184-188: f"Erro interno: {e}"
InternalError(text) == Chars("Erro interno: ") \o text

\* generate_response recording the interaction of a call that ends in the
\* fallback of lines 179-188
generate_response_FallbackRecords(contexts, memory, failure, question, sql_results, session_id, error_message, reply) ==
    [ contexts |-> _update_conversation_context(
                       _get_conversation_context(contexts, session_id),
                       memory, session_id, question,
                       IF failure # None THEN failure ELSE reply, sql_results),
      updated |-> memory,
      message |-> IF failure # None THEN failure ELSE reply,
      response |-> IF error_message = <<>> /\ failure # None
                   THEN _generate_fallback_response(question, sql_results, failure)
                   ELSE [ fallback_used |-> FALSE,
                          message |-> IF failure # None THEN failure ELSE reply,
                          response_type |-> determine_prompt_type(question, error_message # <<>>),
                          confidence_score |->
                              _calculate_confidence_score(sql_results, error_message # <<>>),
                          context_used |-> memory,
                          suggestions |-> _generate_suggestions(sql_results,
                              determine_prompt_type(question, error_message # <<>>)) ] ]

\* lines 129-140 and 217-224: the conversational message when the call of the
\* conversational LLM returns reply (failure = None) or raises failure
ConversationalMessage(failure, error_message, reply) ==
    IF failure # None THEN _format_basic_error_response(error_message) ELSE reply

\* lines 147-170: the interaction is recorded and the response built
RespondWith(contexts, memory, question, sql_results, session_id, has_error, prompt, message) ==
    [ contexts |-> _update_conversation_context(contexts, memory, session_id,
                                                question, message, sql_results),
      updated |-> memory,
      message |-> message,
      response |-> [ fallback_used |-> FALSE,
                     message |-> message,
                     response_type |-> prompt,
                     confidence_score |-> _calculate_confidence_score(sql_results, has_error),
                     context_used |-> memory,
                     suggestions |-> _generate_suggestions(sql_results, prompt) ] ]

\* lines 129-188: generate_response from the call of the conversational LLM
\* on, when that call returns reply (failure = None) or raises an LLM error
\* whose str() is failure.  contexts is the session map when the call of the
\* LLM ends: what line 112 left, changed by whatever other callers did while
\* the LLM was awaited.  In the result, contexts is the session map
\* afterwards, updated tells whether _update_conversation_context recorded
\* the interaction, message is the conversational message, response the
\* ConversationalResponse.  With the session gone, line 297 raises KeyError
\* and lines 184-188 return the fallback.
generate_response(contexts, memory, failure, question, sql_results, session_id, error_message, reply) ==
    IF error_message = <<>> /\ failure # None
    THEN [ contexts |-> contexts, updated |-> FALSE, message |-> <<>>,
           response |-> _generate_fallback_response(question, sql_results, failure) ]
    ELSE IF memory /\ contexts[session_id] = Absent
    THEN [ contexts |-> contexts, updated |-> FALSE, message |-> <<>>,
           response |-> _generate_fallback_response(question, sql_results,
                            InternalError(KeyErrorText(session_id))) ]
    ELSE RespondWith(contexts, memory,
                     question, sql_results, session_id, error_message # <<>>,
                     determine_prompt_type(question, error_message # <<>>),
                     ConversationalMessage(failure, error_message, reply))

\* clear_conversation_context deleting nothing
clear_conversation_context_Keeps(contexts, session_id) ==
    [ contexts |-> contexts, returned |-> contexts[session_id] # Absent ]

\* lines 440-446: the session map afterwards and the value returned
clear_conversation_context(contexts, session_id) ==
    IF contexts[session_id] # Absent
    THEN [ contexts |-> [contexts EXCEPT ![session_id] = Absent], returned |-> TRUE ]
    ELSE [ contexts |-> contexts, returned |-> FALSE ]

\* lines 448-461: found is FALSE when None is returned; domain_preferences,
\* which nothing ever fills, is left out
get_conversation_summary(contexts, session_id) ==
    IF contexts[session_id] = Absent
    THEN [ found |-> FALSE, queries_count |-> 0, interactions_count |-> 0,
           last_queries |-> <<>> ]
    ELSE [ found |-> TRUE,
           queries_count |-> Len(contexts[session_id][1].previous_queries),
           interactions_count |-> Len(contexts[session_id][1].conversation_history),
           last_queries |-> LastN(contexts[session_id][1].previous_queries, 3) ]

\* str(e) of what the call of the conversational LLM raises: _make_request
\* lines 216-218, 251-253 and 271-273
UnavailableError ==
    Chars("Servi") \o <<"c_cedilla">> \o Chars("o LLM conversacional indispon")
    \o <<"i_acute">> \o Chars("vel")
TimeoutError ==
    Chars("Timeout na comunica") \o <<"c_cedilla">> \o <<"a_tilde">>
    \o Chars("o com LLM conversacional (60s)")
HttpError == Chars("Erro HTTP 500: Internal Server Error")

MaxUpdates == 11

\* one call of generate_response: the question, the rows, the error message
\* and what the conversational LLM replies when it answers
LongExchanges ==
    { [ question |-> Chars("Quantos pacientes?"),
        sql_results |-> ResultList(<<Chars("{'result': 42}")>>),
        error_message |-> <<>>,
        reply |-> Chars("Foram 42 pacientes.") ],
      [ question |-> Chars("E em Iju") \o <<"i_acute">> \o Chars("?"),
        sql_results |-> NoResults,
        error_message |-> Chars("no such table: t"),
        reply |-> [i \in 1..(MaxResponseChars + 1) |-> "x"] ] }

FiveRows == [i \in 1..5 |-> Chars("{'cidade': 'A', 'ano': 2019}")]

Exchanges ==
    LongExchanges \cup
    { [ question |-> Chars("Qual a M") \o <<"E_ACUTE">> \o Chars("DIA de idade?"),
        sql_results |-> ResultList(SubSeq(FiveRows, 1, 4)),
        error_message |-> <<>>,
        reply |-> Chars("42 anos.") ],
      [ question |-> Chars("Quantos pacientes por cidade?"),
        sql_results |-> ResultList(FiveRows),
        error_message |-> <<>>,
        reply |-> Chars("A: 5") ],
      [ question |-> Chars("Quantos pacientes?"),
        sql_results |-> ResultList(<<>>),
        error_message |-> <<>>,
        reply |-> Chars("Nenhum.") ],
      [ question |-> Chars("Comparar o crescimento"),
        sql_results |-> SingleValue(Chars("42")),
        error_message |-> <<>>,
        reply |-> Chars("42") ],
      [ question |-> Chars("Crescimento por estado"),
        sql_results |-> NoResults,
        error_message |-> <<>>,
        reply |-> Chars("Sem dados.") ],
      [ question |-> Chars("Qual o total?"),
        sql_results |-> ResultList(<<Chars("{'UF': 'RS'}")>>),
        error_message |-> Chars("near FROM: syntax error"),
        reply |-> Chars("A consulta falhou.") ] }

\* how many interactions a behaviour records in a session before it is
\* cleared: a long conversation of the two LongExchanges in the default
\* session, or one exchange of any kind in each session
UpdateBudget(session_id) ==
    IF exchanges # LongExchanges THEN 1
    ELSE IF session_id = "default" THEN MaxUpdates ELSE 0

MemoryInit ==
    /\ enable_memory \in BOOLEAN
    /\ \/ llm_available = TRUE /\ llm_error \in {None, TimeoutError, HttpError}
       \/ llm_available = FALSE /\ llm_error = None
    /\ exchanges \in {LongExchanges, Exchanges}
    /\ conversation_contexts = [s \in SessionIds |-> Absent]
    /\ updates = [s \in SessionIds |-> <<>>]
    /\ conv_response = Absent
    /\ submitted_prompt = Absent
    /\ pending = Absent
    /\ cleared = Absent
    /\ summary = Absent
    /\ last_call = NoCall
    /\ sql_query = None
    /\ validation = Absent
    /\ exec_result = Absent
    /\ exec_pc = "idle"
    /\ cursor_log = <<>>
    /\ agent_response = <<>>
    /\ parsed = Absent
    /\ ProcessIdle
    /\ AuxIdle

\* what the call of the conversational LLM raises, None when it returns
LLMFailure == IF ~llm_available THEN UnavailableError ELSE llm_error

\* a caller runs generate_response(question, sql, rows, session_id, None,
\* error_message), lines 105-139, up to the call of the conversational LLM:
\* line 112 gets or creates the context of the session, lines 115-126 build
\* the prompt, and the call waits for the LLM
GenerateResponse ==
    \E session_id \in SessionIds : \E x \in exchanges :
        /\ pending = Absent
        /\ Len(updates[session_id]) < UpdateBudget(session_id)
        /\ conversation_contexts' = _get_conversation_context(conversation_contexts, session_id)
        /\ submitted_prompt' = Some(SubmittedPrompt(conversation_contexts, enable_memory,
                                                    x.question, x.sql_results, session_id,
                                                    x.error_message))
        /\ pending' = Some([session_id |-> session_id, exchange |-> x])
        /\ last_call' = [op |-> "_call_llm", session_id |-> session_id, exchange |-> x]
        /\ conv_response' = Absent
        /\ cleared' = Absent
        /\ summary' = Absent
        /\ UNCHANGED <<enable_memory, llm_available, llm_error, exchanges, updates,
                       validateVars, parseVars, processVars, auxVars>>

\* the call of the conversational LLM returns or raises, and lines 140-188
\* run to the return of generate_response
ReturnResponse ==
    /\ pending # Absent
    /\ \E g \in {generate_response(conversation_contexts, enable_memory, LLMFailure,
                                   pending[1].exchange.question,
                                   pending[1].exchange.sql_results, pending[1].session_id,
                                   pending[1].exchange.error_message,
                                   pending[1].exchange.reply)} :
          /\ conversation_contexts' = g.contexts
          /\ conv_response' = Some(g.response)
          /\ updates' = IF g.updated
                        THEN [updates EXCEPT ![pending[1].session_id] =
                                 Append(@, Interaction(pending[1].exchange.question, g.message,
                                                       pending[1].exchange.sql_results))]
                        ELSE updates
    /\ last_call' = [op |-> "generate_response", session_id |-> pending[1].session_id,
                     exchange |-> pending[1].exchange]
    /\ pending' = Absent
    /\ submitted_prompt' = Absent
    /\ cleared' = Absent
    /\ summary' = Absent
    /\ UNCHANGED <<enable_memory, llm_available, llm_error, exchanges,
                   validateVars, parseVars, processVars, auxVars>>

\* a caller runs clear_conversation_context(session_id)
ClearConversationContext ==
    \E session_id \in SessionIds :
        /\ \E c \in {clear_conversation_context(conversation_contexts, session_id)} :
              /\ conversation_contexts' = c.contexts
              /\ cleared' = Some(c.returned)
        /\ updates' = [updates EXCEPT ![session_id] = <<>>]
        /\ last_call' = [op |-> "clear_conversation_context", session_id |-> session_id,
                         exchange |-> NoExchange]
        /\ conv_response' = Absent
        /\ summary' = Absent
        /\ UNCHANGED <<enable_memory, llm_available, llm_error, exchanges,
                       submitted_prompt, pending,
                       validateVars, parseVars, processVars, auxVars>>

\* a caller runs get_conversation_summary(session_id)
GetConversationSummary ==
    \E session_id \in SessionIds :
        /\ summary' = Some(get_conversation_summary(conversation_contexts, session_id))
        /\ last_call' = [op |-> "get_conversation_summary", session_id |-> session_id,
                         exchange |-> NoExchange]
        /\ conv_response' = Absent
        /\ cleared' = Absent
        /\ UNCHANGED <<enable_memory, llm_available, llm_error, exchanges,
                       conversation_contexts, updates, submitted_prompt, pending,
                       validateVars, parseVars, processVars, auxVars>>

MemoryNext ==
    \/ GenerateResponse
    \/ ReturnResponse
    \/ ClearConversationContext
    \/ GetConversationSummary

SpecMemory == MemoryInit /\ [][MemoryNext]_vars

\* C10: after n recorded updates to a session, previous_queries is exactly the
\* last min(n, 10) questions in submission order and conversation_history is
\* exactly the last min(n, 5) interactions in order (the oldest evicted
\* first); neither list ever exceeds its cap.
C10_MemoryBounded ==
    \A session_id \in SessionIds :
        IF conversation_contexts[session_id] = Absent
        THEN updates[session_id] = <<>>
        ELSE LET context == conversation_contexts[session_id][1]
                 n == Len(updates[session_id])
                 nq == IF n < 10 THEN n ELSE 10
                 nh == IF n < 5 THEN n ELSE 5
             IN /\ Len(context.previous_queries) = nq
                /\ \A k \in 1..nq :
                      context.previous_queries[k] = updates[session_id][n - nq + k].query
                /\ Len(context.conversation_history) = nh
                /\ \A k \in 1..nh :
                      context.conversation_history[k] = updates[session_id][n - nh + k]
                /\ Len(context.previous_queries) <= 10
                /\ Len(context.conversation_history) <= 5

C10_Witness ==
    /\ conversation_contexts["default"] # Absent
    /\ Len(updates["default"]) = 11
    /\ updates["default"][1].query = Chars("Quantos pacientes?")
    /\ updates["default"][2].query # Chars("Quantos pacientes?")
    /\ Len(conversation_contexts["default"][1].previous_queries) = 10
    /\ conversation_contexts["default"][1].previous_queries[1] = updates["default"][2].query
    /\ Len(conversation_contexts["default"][1].conversation_history) = 5

\* the last call was generate_response and cr is what it returned
Responded == last_call.op = "generate_response" /\ conv_response # Absent

RetryLater == << Chars("Tente novamente em alguns instantes") >>

\* C11 as stated: with the conversational LLM unavailable and non-empty rows,
\* whatever the question, the session id and the error_message,
\* generate_response returns confidence 0.4, context_used = false, response
\* type BASIC_RESPONSE and the single retry-later suggestion.
C11_UnavailableAnyErrorMessage ==
    (/\ last_call.op = "generate_response"
     /\ ~llm_available
     /\ last_call.exchange.sql_results.is_list
     /\ last_call.exchange.sql_results.rows # <<>>)
    => /\ conv_response # Absent
       /\ conv_response[1].confidence_score = 4
       /\ conv_response[1].context_used = FALSE
       /\ conv_response[1].response_type = "BASIC_RESPONSE"
       /\ conv_response[1].suggestions = RetryLater

\* the call that has just returned was to record its interaction and found
\* its session cleared meanwhile
SessionClearedMeanwhile ==
    enable_memory /\ conversation_contexts[last_call.session_id] = Absent

\* C11, amended: generate_response always returns a response; with the
\* conversational LLM unavailable, non-empty rows and an empty error_message
\* it is the fallback (0.4, context_used false, BASIC_RESPONSE, the single
\* retry-later suggestion); with a non-empty error_message it is the
\* ERROR_EXPLANATION response with confidence 0.3, or the same fallback
\* when the session was cleared while the call was under way.
C11_UnavailableFallback ==
    last_call.op = "generate_response" =>
        /\ conv_response # Absent
        /\ (/\ ~llm_available
            /\ last_call.exchange.sql_results.is_list
            /\ last_call.exchange.sql_results.rows # <<>>)
           => IF last_call.exchange.error_message = <<>> \/ SessionClearedMeanwhile
              THEN /\ conv_response[1].confidence_score = 4
                   /\ conv_response[1].context_used = FALSE
                   /\ conv_response[1].response_type = "BASIC_RESPONSE"
                   /\ conv_response[1].suggestions = RetryLater
              ELSE /\ conv_response[1].confidence_score = 3
                   /\ conv_response[1].response_type = "ERROR_EXPLANATION"

C11_Witness ==
    /\ Responded
    /\ ~llm_available
    /\ enable_memory
    /\ Len(last_call.exchange.sql_results.rows) = 5
    /\ last_call.exchange.error_message = <<>>
    /\ conv_response[1].fallback_used
    /\ conversation_contexts[last_call.session_id] = Some(ConversationContext)

\* C14: the confidence of a non-fallback response depends on the rows and on
\* has_error only: 0.3 with an error; otherwise 0.5 for null rows, 0.6 for an
\* empty list, 0.8 for 1 to 4 rows and 0.9 for 5 or more; and the confidence
\* of every response lies in [0, 1] (scores are in tenths).
C14_ConfidenceScore ==
    Responded =>
        /\ conv_response[1].confidence_score \in 0..10
        /\ (/\ ~conv_response[1].fallback_used
            /\ last_call.exchange.sql_results.is_none \/ last_call.exchange.sql_results.is_list)
           => conv_response[1].confidence_score =
                 (IF last_call.exchange.error_message # <<>> THEN 3
                  ELSE IF last_call.exchange.sql_results.is_none THEN 5
                  ELSE CASE Len(last_call.exchange.sql_results.rows) = 0 -> 6
                         [] Len(last_call.exchange.sql_results.rows) \in 1..4 -> 8
                         [] Len(last_call.exchange.sql_results.rows) >= 5 -> 9)

C14_Witness ==
    /\ Responded
    /\ ~conv_response[1].fallback_used
    /\ last_call.exchange.error_message = <<>>
    /\ Len(last_call.exchange.sql_results.rows) = 5
    /\ conv_response[1].confidence_score = 9

\* the response of the call that has just returned is the normal one of the
\* error-explanation path
ErrorExplained ==
        /\ ~conv_response[1].fallback_used
        /\ conv_response[1].response_type = "ERROR_EXPLANATION"
        /\ conv_response[1].confidence_score = 3
        /\ conv_response[1].context_used = enable_memory
        /\ IF llm_available /\ llm_error = None
           THEN conv_response[1].message = last_call.exchange.reply
           ELSE /\ HasAt(conv_response[1].message, 1,
                         Chars("\n        Desculpe, encontrei um problema ao processar sua consulta."))
                /\ Contains(conv_response[1].message,
                            Chars("**Erro encontrado:** ") \o last_call.exchange.error_message
                            \o Chars("\n"))
                /\ ~Contains(conv_response[1].message, last_call.exchange.reply)

\* C19: with a non-empty error_message generate_response returns a normal
\* (non-fallback) response of type ERROR_EXPLANATION with confidence 0.3,
\* whether the LLM call succeeds or fails; when the call fails the message is
\* the fixed error text built from the error_message, when it succeeds the
\* message is the reply of the LLM.
C19_ErrorExplanation ==
    (Responded /\ last_call.exchange.error_message # <<>>) => ErrorExplained

\* what holds of the error-explanation path: the response is as C19 states
\* unless the session was cleared while the call was under way; then the
\* memory update fails and the call returns the fallback response
C19_ErrorExplanationOrFallback ==
    (Responded /\ last_call.exchange.error_message # <<>>) =>
        IF SessionClearedMeanwhile
        THEN /\ conv_response[1].fallback_used
             /\ conv_response[1].response_type = "BASIC_RESPONSE"
             /\ conv_response[1].confidence_score = 4
             /\ Contains(conv_response[1].message,
                         InternalError(KeyErrorText(last_call.session_id)))
        ELSE ErrorExplained

\* C27: a generate_response call with an empty error_message whose call of
\* the conversational LLM fails returns the fallback response and records
\* nothing: up to the call of the LLM it leaves every session's context as it
\* was, except that the requested session, when it had none, now has an
\* empty one; from the failure of the LLM to its return it changes nothing.
C27_FailedCallRecordsNothing ==
    [][ /\ ( /\ last_call'.op = "_call_llm"
             /\ last_call'.exchange.error_message = <<>>
             /\ LLMFailure # None )
           => /\ updates' = updates
              /\ \A s \in SessionIds :
                    conversation_contexts'[s] =
                       IF s = last_call'.session_id /\ conversation_contexts[s] = Absent
                       THEN Some(ConversationContext)
                       ELSE conversation_contexts[s]
        /\ ( /\ last_call'.op = "generate_response"
             /\ last_call'.exchange.error_message = <<>>
             /\ LLMFailure # None )
           => /\ conv_response' # Absent
              /\ conv_response'[1].fallback_used
              /\ conv_response'[1].confidence_score = 4
              /\ ~conv_response'[1].context_used
              /\ updates' = updates
              /\ conversation_contexts' = conversation_contexts
      ]_vars

\* a failed call on a session that holds one recorded question left it alone
\* and created the other session empty
C27_Witness ==
    /\ Responded
    /\ last_call.exchange.error_message = <<>>
    /\ LLMFailure # None
    /\ last_call.session_id = "s2"
    /\ conversation_contexts["s2"] = Some(ConversationContext)
    /\ conversation_contexts["default"] # Absent
    /\ Len(conversation_contexts["default"][1].previous_queries) = 1
    /\ conv_response[1].fallback_used

\* generate_response, called without error_message, has handed its prompt
\* to the conversational LLM
AnsweredWithoutError ==
    /\ pending # Absent
    /\ pending[1].exchange.error_message = <<>>
    /\ submitted_prompt # Absent

\* C25 as stated: without error_message, the text handed to the
\* conversational LLM is the specialized prompt of get_prompt, built from the
\* template keyed by the classified prompt type (and carrying the question
\* and the rows), so that questions of different prompt types go out under
\* different templates.
C25_SpecializedPromptSubmitted ==
    AnsweredWithoutError
    => /\ submitted_prompt[1].template = determine_prompt_type(pending[1].exchange.question, FALSE)
       /\ submitted_prompt[1].user_query = pending[1].exchange.question
       /\ submitted_prompt[1].sql_results = pending[1].exchange.sql_results

\* what the code does instead: without error_message every question goes
\* out under the one sus_context text of the LLM service, whatever its prompt
\* type; only a call with error_message sends the specialized prompt
C25_OneTemplateWithoutError ==
    /\ (pending # Absent) <=> (submitted_prompt # Absent)
    /\ pending # Absent
       => /\ submitted_prompt[1].user_query = pending[1].exchange.question
          /\ submitted_prompt[1].sql_results = pending[1].exchange.sql_results
          /\ submitted_prompt[1].template =
                IF pending[1].exchange.error_message = <<>>
                THEN "sus_context"
                ELSE determine_prompt_type(pending[1].exchange.question, TRUE)

\* C15: a session's context is created (empty, before the interaction of the
\* creating call is recorded) by the first generate_response that refers to
\* the session, and only clear_conversation_context of that session removes
\* it; clear_conversation_context(s) returns true exactly when s existed,
\* leaves s without a context and every other session as it was;
\* get_conversation_summary(s) returns none exactly when s has no context and
\* changes nothing.
C15_SessionLifecycle ==
    [][ \A s \in SessionIds :
          /\ (conversation_contexts[s] # Absent /\ conversation_contexts'[s] = Absent)
             => (last_call'.op = "clear_conversation_context" /\ last_call'.session_id = s)
          /\ (conversation_contexts[s] = Absent /\ conversation_contexts'[s] # Absent)
             => /\ last_call'.op = "_call_llm" /\ last_call'.session_id = s
                /\ conversation_contexts'[s] = Some(ConversationContext)
                /\ updates'[s] = <<>>
          /\ (last_call'.op = "_call_llm" /\ last_call'.session_id = s)
             => /\ conversation_contexts'[s] # Absent
                /\ conversation_contexts[s] # Absent
                   => conversation_contexts'[s] = conversation_contexts[s]
          /\ (last_call'.op = "clear_conversation_context" /\ last_call'.session_id = s)
             => /\ cleared' = Some(conversation_contexts[s] # Absent)
                /\ conversation_contexts'[s] = Absent
                /\ \A o \in SessionIds \ {s} :
                      conversation_contexts'[o] = conversation_contexts[o]
          /\ (last_call'.op = "get_conversation_summary" /\ last_call'.session_id = s)
             => /\ summary'[1].found = (conversation_contexts[s] # Absent)
                /\ conversation_contexts' = conversation_contexts
      ]_vars

\* a session that existed was cleared while the other one was kept
C15_Witness ==
    /\ last_call.op = "clear_conversation_context"
    /\ last_call.session_id = "default"
    /\ cleared = Some(TRUE)
    /\ conversation_contexts["default"] = Absent
    /\ conversation_contexts["s2"] # Absent
    /\ Len(conversation_contexts["s2"][1].previous_queries) = 1

----------------------------------------------------------------------------
(* SUSPromptTemplateService.determine_prompt_type over bounded questions *)

MaxPromptFrags == 2

\* pieces of questions: keywords of the four sets in lower and upper case,
\* halves of a keyword, and text without keyword
PromptFrags ==
    { Chars("Qual a "),
      Chars("M") \o <<"E_ACUTE">> \o Chars("DIA"),
      Chars("total"),
      Chars("RANKING"),
      Chars("versus"),
      Chars("evolu") \o <<"c_cedilla">> \o <<"a_tilde">> \o Chars("o"),
      Chars("cidade"),
      Chars("ma"),
      Chars("pa"),
      Chars(" de pacientes?") }

PromptQuestions == {Concat(fs) : fs \in SeqsUpTo(PromptFrags, MaxPromptFrags)}

PromptInit ==
    /\ prompt_query \in PromptQuestions
    /\ prompt_has_error \in BOOLEAN
    /\ prompt_type = Absent
    /\ fixed_once = None
    /\ fixed_twice = None
    /\ max_retries = 0
    /\ attempt = 0
    /\ llm_pc = "idle"
    /\ llm_log = <<>>
    /\ llm_result = Absent
    /\ sql_query = None
    /\ validation = Absent
    /\ exec_result = Absent
    /\ exec_pc = "idle"
    /\ cursor_log = <<>>
    /\ agent_response = <<>>
    /\ parsed = Absent
    /\ ProcessIdle
    /\ MemoryIdle
    /\ HeapIdle

\* a caller runs determine_prompt_type(prompt_query, None, prompt_has_error)
DeterminePromptType ==
    /\ prompt_query # None
    /\ prompt_type = Absent
    /\ prompt_type' = Some(determine_prompt_type(prompt_query, prompt_has_error))
    /\ UNCHANGED <<prompt_query, prompt_has_error, normalizeVars, llmVars, heapVars,
                   validateVars, parseVars, processVars, memoryVars>>

PromptNext == DeterminePromptType

SpecPrompt == PromptInit /\ [][PromptNext]_vars

\* the analysis types in priority order, each with its keyword set
AnalysisTypes ==
    << [type |-> "STATISTICAL_ANALYSIS", keywords |-> statistical_keywords],
       [type |-> "COMPARATIVE_ANALYSIS", keywords |-> comparative_keywords],
       [type |-> "TREND_ANALYSIS", keywords |-> trend_keywords],
       [type |-> "GEOGRAPHIC_ANALYSIS", keywords |-> geographic_keywords] >>

\* the positions in AnalysisTypes whose keyword set has a keyword occurring in text
MatchingTypes(text) ==
    { i \in 1..Len(AnalysisTypes) :
        \E k \in 1..Len(AnalysisTypes[i].keywords) :
            \E p \in 1..Len(text) : HasAt(text, p, AnalysisTypes[i].keywords[k]) }

\* C12: determine_prompt_type returns a prompt type for every question;
\* ERROR_EXPLANATION whenever has_error is true, whatever the question;
\* otherwise the first of STATISTICAL_ANALYSIS, COMPARATIVE_ANALYSIS,
\* TREND_ANALYSIS, GEOGRAPHIC_ANALYSIS whose keyword set has a keyword
\* occurring in the lower-cased question, and BASIC_RESPONSE when none has.
C12_PromptTypePriority ==
    /\ (prompt_query # None /\ prompt_type = Absent) => ENABLED DeterminePromptType
    /\ prompt_type # Absent =>
          prompt_type[1] =
             (IF prompt_has_error THEN "ERROR_EXPLANATION"
              ELSE IF MatchingTypes(Lower(prompt_query)) = {} THEN "BASIC_RESPONSE"
              ELSE AnalysisTypes[CHOOSE i \in MatchingTypes(Lower(prompt_query)) :
                      \A j \in MatchingTypes(Lower(prompt_query)) : i <= j].type)

\* a question with an upper-case comparative keyword and a geographic one
C12_Witness ==
    /\ prompt_query = Chars("RANKINGcidade")
    /\ ~prompt_has_error
    /\ prompt_type = Some("COMPARATIVE_ANALYSIS")

----------------------------------------------------------------------------
(* _fix_case_sensitivity_issues applied to its own result *)

MaxFixFrags == 3

\* pieces of SQL: the city column in both cases, city literals wrapped in a
\* case function, all lower-case, in proper case and unterminated, and a
\* wrapped literal that is itself the text of a comparison with UPPER(
FixFrags ==
    { Chars("SELECT * FROM t WHERE "),
      Chars("CIDADE_RESIDENCIA_PACIENTE = "),
      Chars("cidade_residencia_paciente="),
      Chars("CIDADE_RESIDENCIA_PACIENTE = UPPER('iju") \o <<"i_acute">> \o Chars("') OR "),
      Chars("UPPER('porto alegre')"),
      Chars("CIDADE_RESIDENCIA_PACIENTE = UPPER('CIDADE_RESIDENCIA_PACIENTE = UPPER(')"),
      Chars(" || (')')"),
      Chars("lower ( 'IJU") \o <<"I_ACUTE">> \o Chars("' )"),
      Chars("'porto alegre'"),
      Chars("'Iju") \o <<"i_acute">> \o Chars("'"),
      Chars("'x "),
      Chars("'"),
      Chars(" AND ") }

FixInputs == {Concat(fs) : fs \in SeqsUpTo(FixFrags, MaxFixFrags)} \cup {not_found}

NormalizeInit ==
    /\ sql_query \in FixInputs
    /\ fixed_once = None
    /\ fixed_twice = None
    /\ validation = Absent
    /\ exec_result = Absent
    /\ exec_pc = "idle"
    /\ cursor_log = <<>>
    /\ agent_response = <<>>
    /\ parsed = Absent
    /\ prompt_query = None
    /\ prompt_has_error = FALSE
    /\ prompt_type = Absent
    /\ max_retries = 0
    /\ attempt = 0
    /\ llm_pc = "idle"
    /\ llm_log = <<>>
    /\ llm_result = Absent
    /\ ProcessIdle
    /\ MemoryIdle
    /\ HeapIdle

\* a caller runs _fix_case_sensitivity_issues(sql_query)
FixCaseSensitivity ==
    /\ sql_query # None
    /\ fixed_once = None
    /\ fixed_once' = _fix_case_sensitivity_issues(sql_query)
    /\ UNCHANGED <<fixed_twice, promptVars, llmVars, heapVars,
                   validateVars, parseVars, processVars, memoryVars>>

\* a caller runs _fix_case_sensitivity_issues on what the first call returned
FixCaseSensitivityAgain ==
    /\ fixed_once # None
    /\ fixed_twice = None
    /\ fixed_twice' = _fix_case_sensitivity_issues(fixed_once)
    /\ UNCHANGED <<fixed_once, promptVars, llmVars, heapVars,
                   validateVars, parseVars, processVars, memoryVars>>

NormalizeNext == FixCaseSensitivity \/ FixCaseSensitivityAgain

SpecNormalize == NormalizeInit /\ [][NormalizeNext]_vars

\* C13: _fix_case_sensitivity_issues applied to its own result returns that
\* result unchanged, for every SQL string.
C13_NormalizeIdempotent ==
    fixed_twice # None => fixed_twice = fixed_once

\* CIDADE_RESIDENCIA_PACIENTE = '<literal>' at position i, the column name in
\* any spelling when ignore_case: the literal, None when there is none
BareLiteralAt(s, i, ignore_case) ==
    LET p == ColumnEqEnd(s, i, ignore_case)
    IN IF p = 0 \/ p > Len(s) \/ s[p] # "'" THEN None
       ELSE LET e == RunEnd(NotQuote, s, p + 1)
            IN IF e < p + 1 \/ e + 1 > Len(s) THEN None ELSE SubSeq(s, p + 1, e)

\* s compares the city column, in any spelling, with a literal wrapped in
\* UPPER(...) or LOWER(...)
HasWrappedLiteral(s) ==
    \E i \in 1..Len(s) :
        \/ FuncCallMatchAt(s, i, Chars("UPPER")).end # 0
        \/ FuncCallMatchAt(s, i, Chars("LOWER")).end # 0

\* s compares the city column with a bare all-lowercase literal
HasLowercaseLiteral(s, ignore_case) ==
    \E i \in 1..Len(s) :
        /\ BareLiteralAt(s, i, ignore_case) # None
        /\ IsLowerStr(BareLiteralAt(s, i, ignore_case))

\* a second application changes nothing when the first result holds no
\* comparison with a wrapped literal (title() turns a wrapped comparison
\* inside a literal into Upper( / Lower(, which the patterns match again)
IdempotentWithoutWrappedResult ==
    (fixed_twice # None /\ ~HasWrappedLiteral(fixed_once)) => fixed_twice = fixed_once

\* C22 as stated: _fix_case_sensitivity_issues rewrites every equality
\* comparison against CIDADE_RESIDENCIA_PACIENTE, in every spelling of the
\* column name, whose literal is wrapped in UPPER(...) or LOWER(...) or is
\* bare and all-lowercase, to the title-case literal: its result holds no
\* wrapped and no all-lowercase comparison against the column any more.
C22_EveryComparisonRewritten ==
    (fixed_once # None /\ sql_query # not_found)
    => /\ ~HasWrappedLiteral(fixed_once)
       /\ ~HasLowercaseLiteral(fixed_once, TRUE)

\* a wrapped literal of s names a case function itself
HasCaseFunctionInLiteral(s) ==
    \E i \in 1..Len(s), func \in {Chars("UPPER"), Chars("LOWER")} :
        /\ FuncCallMatchAt(s, i, func).end # 0
        /\ \/ ContainsAnyCase(FuncCallMatchAt(s, i, func).city, Chars("UPPER"))
           \/ ContainsAnyCase(FuncCallMatchAt(s, i, func).city, Chars("LOWER"))

\* what the code does rewrite: the wrapped literals under every spelling of
\* the column name (a wrapped comparison is left only where the literal of
\* one named a case function), and the bare all-lowercase literals that
\* follow the upper-case spelling and start with one of a..z
C22_UpperCaseColumnRewritten ==
    (fixed_once # None /\ sql_query # not_found)
    => /\ HasWrappedLiteral(fixed_once) => HasCaseFunctionInLiteral(sql_query)
       /\ \A i \in 1..Len(fixed_once) :
             LET literal == BareLiteralAt(fixed_once, i, FALSE)
             IN (literal # None /\ literal[1] \in AsciiLower) => ~IsLowerStr(literal)

-----------------------------------------------------------------------------
(* ConversationalLLMService._call_llm: the retry loop around _make_request *)

MaxRetries == 3

\* custom_exceptions.py: the classes an `except LLMTimeoutError` clause catches
LLMTimeoutErrors == {"LLMTimeoutError"}

\* the classes an `except LLMCommunicationError` clause catches:
\* LLMTimeoutError and LLMUnavailableError both derive from LLMCommunicationError
LLMCommunicationErrors == {"LLMCommunicationError", "LLMTimeoutError", "LLMUnavailableError"}

FormatError == Chars("Resposta do LLM em formato inesperado")

\* what one _make_request(prompt) does: it returns the stripped content of the
\* reply or raises
Returned(reply) == [type |-> "return", message |-> reply]
Raised(type, message) == [type |-> type, message |-> message]
NoOutcome == [type |-> "none", message |-> <<>>]

RequestOutcomes ==
    { Returned(Chars("42 pacientes")),
      Raised("LLMUnavailableError", UnavailableError),
      Raised("LLMTimeoutError", TimeoutError),
      Raised("LLMCommunicationError", HttpError),
      Raised("LLMCommunicationError", FormatError),
      Raised("KeyError", Chars("'content'")) }

\* the exception is caught by one of the two except clauses of the loop
Caught(e) == e.type \in LLMTimeoutErrors \/ e.type \in LLMCommunicationErrors

\* the backoff growing linearly
Backoff_Linear(k) == 2 * k

\* time.sleep(2 ** attempt)
Backoff(k) == 2 ^ k

\* the HTTP requests of the service: is_available() gets health_endpoint,
\* _make_request posts to chat_endpoint
HealthRequest == "GET /api/tags"
ChatRequest == "POST /api/chat"

\* _make_request posting the chat request whatever is_available() said
RequestsSent_Unchecked(outcome) == <<HealthRequest, ChatRequest>>

\* lines 213-247: the requests one _make_request sends.  is_available() is
\* asked first, and only LLMUnavailableError leaves before the post.
RequestsSent(outcome) ==
    IF outcome.type = "LLMUnavailableError"
    THEN <<HealthRequest>>
    ELSE <<HealthRequest, ChatRequest>>

AttemptEntry(k, outcome) == [kind |-> "attempt", attempt |-> k, outcome |-> outcome, seconds |-> 0, requests |-> RequestsSent(outcome)]
SleepEntry(k, seconds) == [kind |-> "sleep", attempt |-> k, outcome |-> NoOutcome, seconds |-> seconds, requests |-> <<>>]

CallInit ==
    /\ max_retries \in 0..MaxRetries
    /\ attempt = 0
    /\ llm_pc = "idle"
    /\ llm_log = <<>>
    /\ llm_result = Absent
    /\ prompt_query = None
    /\ prompt_has_error = FALSE
    /\ prompt_type = Absent
    /\ fixed_once = None
    /\ fixed_twice = None
    /\ agent_response = <<>>
    /\ parsed = Absent
    /\ sql_query = <<>>
    /\ validation = Absent
    /\ exec_result = Absent
    /\ exec_pc = "idle"
    /\ cursor_log = <<>>
    /\ ProcessIdle
    /\ MemoryIdle
    /\ HeapIdle

CallUnchanged == UNCHANGED <<agent_response, parsed, validateVars, processVars, memoryVars, promptVars, normalizeVars, heapVars, max_retries>>

\* a caller runs _call_llm(prompt): the loop head of the first iteration
CallLLM ==
    /\ llm_pc = "idle"
    /\ attempt' = 0
    /\ llm_pc' = IF 0 < max_retries THEN "request" ELSE "exhausted"
    /\ UNCHANGED <<llm_log, llm_result>>
    /\ CallUnchanged

\* one iteration up to the return, the raise or the sleep: _make_request
\* answers or raises, and the except clauses decide
MakeRequest ==
    /\ llm_pc = "request"
    /\ \E outcome \in RequestOutcomes :
          /\ llm_log' = Append(llm_log, AttemptEntry(attempt, outcome))
          /\ IF outcome.type = "return"
             THEN llm_pc' = "done" /\ llm_result' = Some(outcome)
             ELSE IF Caught(outcome) /\ attempt # max_retries - 1
             THEN llm_pc' = "sleep" /\ llm_result' = llm_result
             ELSE llm_pc' = "done" /\ llm_result' = Some(outcome)
    /\ UNCHANGED attempt
    /\ CallUnchanged

\* time.sleep(2 ** attempt), then the loop head of the next iteration
Sleep ==
    /\ llm_pc = "sleep"
    /\ llm_log' = Append(llm_log, SleepEntry(attempt, Backoff(attempt)))
    /\ attempt' = attempt + 1
    /\ llm_pc' = IF attempt + 1 < max_retries THEN "request" ELSE "exhausted"
    /\ UNCHANGED llm_result
    /\ CallUnchanged

\* the text of the error raised after the loop, line 211
RetriesExhausted == Chars("Falha ap") \o <<"o_acute">> \o Chars("s todas as tentativas de retry")

\* the raise after the loop
RaiseAfterLoop ==
    /\ llm_pc = "exhausted"
    /\ llm_result' = Some(Raised("LLMCommunicationError", RetriesExhausted))
    /\ llm_pc' = "done"
    /\ UNCHANGED <<attempt, llm_log>>
    /\ CallUnchanged

CallNext == CallLLM \/ MakeRequest \/ Sleep \/ RaiseAfterLoop

SpecCallLLM == CallInit /\ [][CallNext]_vars

\* a request blocks for at most the configured timeout and a sleep for 2^k
\* seconds: a started call keeps taking its steps
SpecCallLLMFair ==
    /\ CallInit
    /\ [][CallNext]_vars
    /\ WF_vars(MakeRequest)
    /\ WF_vars(Sleep)
    /\ WF_vars(RaiseAfterLoop)

\* the number of attempts among the first i entries of the log
RECURSIVE AttemptsUpTo(_, _)
AttemptsUpTo(log, i) ==
    IF i = 0 THEN 0
    ELSE AttemptsUpTo(log, i - 1) + (IF log[i].kind = "attempt" THEN 1 ELSE 0)

\* the attempts and waits of the call so far follow the retry protocol
RetryProtocol ==
    LET n == Len(llm_log)
    IN /\ AttemptsUpTo(llm_log, n) <= max_retries
       /\ \A i \in 1..n :
             IF llm_log[i].kind = "attempt"
             THEN /\ llm_log[i].attempt = AttemptsUpTo(llm_log, i - 1)
                  /\ llm_log[i].outcome.type = "return"
                     => /\ i = n
                        /\ llm_pc = "done"
                        /\ llm_result = Some(llm_log[i].outcome)
                  /\ i < n
                     => /\ llm_log[i].attempt < max_retries - 1
                        /\ llm_log[i + 1] = SleepEntry(llm_log[i].attempt, 2 ^ llm_log[i].attempt)
             ELSE /\ i > 1
                  /\ llm_log[i - 1].kind = "attempt"
                  /\ i < n => llm_log[i + 1].kind = "attempt"
                  /\ llm_pc = "done" => i < n
       /\ ( /\ llm_pc = "done"
            /\ AttemptsUpTo(llm_log, n) = max_retries
            /\ \A i \in 1..n : llm_log[i].kind = "attempt"
                  => llm_log[i].outcome.type \in {"LLMTimeoutError", "LLMCommunicationError"} )
          => /\ llm_log[n].kind = "attempt"
             /\ llm_result = Some(llm_log[n].outcome)

\* C17: for max_retries = m >= 1, _call_llm makes at most m attempts, numbered
\* 0, 1, ...; a successful attempt ends the call with its response; a failed
\* attempt k that is followed by anything is followed by one wait of 2^k
\* seconds and k < m - 1, so there is no wait after the last attempt; when all
\* m attempts fail with timeout or communication failure the call raises the
\* error of the final attempt; and every started call ends.
C17_RetryProtocol ==
    /\ [](max_retries >= 1 => RetryProtocol)
    /\ (max_retries >= 1 /\ llm_pc # "idle") ~> (llm_pc = "done")

C17_Witness ==
    /\ max_retries = 3
    /\ llm_pc = "done"
    /\ Len(llm_log) = 5
    /\ llm_log[2].seconds = 1
    /\ llm_log[4].seconds = 2
    /\ llm_log[1].outcome = Raised("LLMCommunicationError", HttpError)
    /\ llm_log[5].outcome = Raised("LLMTimeoutError", TimeoutError)
    /\ llm_result = Some(Raised("LLMTimeoutError", TimeoutError))

\* C18: an attempt of _call_llm that fails with LLMUnavailableError is the
\* last step of the call: no wait and no further attempt follows, and the
\* call raises that error.
C18_UnavailableNotRetried ==
    \A i \in 1..Len(llm_log) :
        ( /\ llm_log[i].kind = "attempt"
          /\ llm_log[i].outcome.type = "LLMUnavailableError" )
        => /\ i = Len(llm_log)
           /\ llm_pc = "done"
           /\ llm_result = Some(llm_log[i].outcome)


\* C29: every attempt of _call_llm asks is_available() first and once, so the
\* check is repeated on each attempt; the chat request follows the check, and
\* an attempt whose check failed sends no chat request.  With max_retries = 0
\* no attempt is made and the call raises LLMCommunicationError.
C29_CheckBeforeChat ==
    /\ \A i \in 1..Len(llm_log) :
          IF llm_log[i].kind = "attempt"
          THEN /\ llm_log[i].requests # <<>>
               /\ llm_log[i].requests[1] = HealthRequest
               /\ \A j \in 2..Len(llm_log[i].requests) :
                     /\ j = 2
                     /\ llm_log[i].requests[j] = ChatRequest
                     /\ llm_log[i].outcome.type # "LLMUnavailableError"
               /\ llm_log[i].outcome.type \in {"return", "LLMTimeoutError", "KeyError"}
                  => Len(llm_log[i].requests) = 2
          ELSE llm_log[i].requests = <<>>
    /\ max_retries = 0
       => /\ llm_log = <<>>
          /\ llm_pc = "done"
             => llm_result = Some(Raised("LLMCommunicationError", RetriesExhausted))

\* a call whose first check failed and whose second attempt, checked again,
\* was answered
C29_Witness ==
    /\ max_retries = 3
    /\ llm_pc = "done"
    /\ Len(llm_log) = 3
    /\ llm_log[1].outcome.type = "LLMUnavailableError"
    /\ llm_log[1].requests = <<HealthRequest>>
    /\ llm_log[3].outcome.type = "return"
    /\ llm_log[3].requests = <<HealthRequest, ChatRequest>>


----------------------------------------------------------------------------
(* ConversationalResponseService called from several threads at once.  *)
(* Nothing in the service takes a lock, so calls interleave between any *)
(* two accesses of self.conversation_contexts, of a context attribute   *)
(* or of a list.  Objects are held by reference: context_refs maps a    *)
(* session id to a ConversationContext object, whose three attributes   *)
(* refer to entries of list_objects.                                    *)

Threads == {"c1", "c2"}

Operations == {"generate_response", "clear_conversation_context", "get_conversation_summary"}

\* user_query of the call of a thread
QuestionOf(t) == IF t = "c1" THEN Chars("q1") ELSE Chars("q2")

\* what the conversational LLM answers
Reply == Chars("Foram 42 pacientes.")

\* a session that has reached both caps
OldQueries == [i \in 1..MaxPreviousQueries |-> Chars("p") \o IntToStr(i)]
OldHistory ==
    [i \in 1..MaxHistory |-> Interaction(Chars("p") \o IntToStr(i + 5), Reply, NoResults)]

\* ConversationContext.__post_init__ with a list shared between instances
\* (a mutable default) instead of a fresh one
NewContext_SharedDefaults(lists) ==
    [ previous_queries |-> 1, conversation_history |-> 2, domain_preferences |-> 3 ]

\* lines 26-41: ConversationContext(session_id=...): __post_init__ gives the
\* three attributes objects of their own, allocated after those in lists
NewContext(lists) ==
    [ previous_queries |-> Len(lists) + 1,
      conversation_history |-> Len(lists) + 2,
      domain_preferences |-> Len(lists) + 3 ]

\* the stores the calls start from: no session, "default" at its caps, and
\* "default" at its caps beside a fresh "s2"
Heaps ==
    { [ context_objects |-> <<>>, list_objects |-> <<>>,
        context_refs |-> [s \in SessionIds |-> Absent] ],
      [ context_objects |-> << NewContext(<<>>) >>,
        list_objects |-> << OldQueries, OldHistory, <<>> >>,
        context_refs |-> [s \in SessionIds |-> IF s = "default" THEN Some(1) ELSE Absent] ],
      [ context_objects |-> << NewContext(<<>>), NewContext(<<1, 2, 3>>) >>,
        list_objects |-> << OldQueries, OldHistory, <<>>, <<>>, <<>>, <<>> >>,
        context_refs |-> [s \in SessionIds |-> IF s = "default" THEN Some(1) ELSE Some(2)] ] }

FirstStep(op) ==
    IF op = "generate_response" THEN "check"
    ELSE IF op = "clear_conversation_context" THEN "c_check" ELSE "s_check"

\* the locals of a call: context and list are references (0 when unbound),
\* attr the attribute being worked on, queries_count and interactions_count
\* the entries of the summary evaluated so far
StartedCall(op, session_id) ==
    [ op |-> op, session_id |-> session_id, pc |-> FirstStep(op),
      context |-> 0, list |-> 0, sliced |-> 0, attr |-> "previous_queries",
      queries_count |-> 0, interactions_count |-> 0,
      message |-> <<>>, outcome |-> Absent ]

ConcurrentInit ==
    /\ \E h \in Heaps :
          /\ context_objects = h.context_objects
          /\ list_objects = h.list_objects
          /\ context_refs = h.context_refs
    /\ calls \in [Threads -> { StartedCall(op, s) : op \in Operations, s \in SessionIds }]
    /\ enable_memory \in BOOLEAN
    /\ llm_available = TRUE
    /\ llm_error = None
    /\ exchanges = {}
    /\ conversation_contexts = [s \in SessionIds |-> Absent]
    /\ updates = [s \in SessionIds |-> <<>>]
    /\ conv_response = Absent
    /\ submitted_prompt = Absent
    /\ pending = Absent
    /\ cleared = Absent
    /\ summary = Absent
    /\ last_call = NoCall
    /\ sql_query = None
    /\ validation = Absent
    /\ exec_result = Absent
    /\ exec_pc = "idle"
    /\ cursor_log = <<>>
    /\ agent_response = <<>>
    /\ parsed = Absent
    /\ ProcessIdle
    /\ prompt_query = None
    /\ prompt_has_error = FALSE
    /\ prompt_type = Absent
    /\ fixed_once = None
    /\ fixed_twice = None
    /\ max_retries = 0
    /\ attempt = 0
    /\ llm_pc = "idle"
    /\ llm_log = <<>>
    /\ llm_result = Absent

ConcurrentUnchanged ==
    UNCHANGED <<agent_response, parsed, validateVars, processVars, memoryVars,
                promptVars, normalizeVars, llmVars>>

\* the call of thread t moves on to step pc
Goto(t, pc) == [calls EXCEPT ![t].pc = pc]

\* the call of thread t returns or raises outcome
Finish(t, outcome) ==
    [calls EXCEPT ![t].pc = "done", ![t].outcome = Some(outcome),
                  ![t].context = 0, ![t].list = 0, ![t].sliced = 0,
                  ![t].queries_count = 0, ![t].interactions_count = 0]

\* lines 179-188: the LLM error or the unexpected exception e ends the call in
\* the fallback response
Fallback(t, status) == Finish(t, _generate_fallback_response(QuestionOf(t), NoResults, status))

\* lines 152-177: the ConversationalResponse of a call without error_message
Response(t) ==
    [ fallback_used |-> FALSE,
      message |-> calls[t].message,
      response_type |-> determine_prompt_type(QuestionOf(t), FALSE),
      confidence_score |-> _calculate_confidence_score(NoResults, FALSE),
      context_used |-> enable_memory,
      suggestions |-> _generate_suggestions(NoResults, determine_prompt_type(QuestionOf(t), FALSE)) ]

\* line 192: if session_id not in self.conversation_contexts
GetContextCheck(t) ==
    /\ calls[t].pc = "check"
    /\ calls' = Goto(t, IF context_refs[calls[t].session_id] = Absent THEN "create" ELSE "return")
    /\ UNCHANGED <<context_objects, list_objects, context_refs>>
    /\ ConcurrentUnchanged

\* lines 193-195: a new ConversationContext is stored under the session id
GetContextCreate(t) ==
    /\ calls[t].pc = "create"
    /\ context_objects' = Append(context_objects, NewContext(list_objects))
    /\ list_objects' = list_objects \o << <<>>, <<>>, <<>> >>
    /\ context_refs' = [context_refs EXCEPT ![calls[t].session_id] = Some(Len(context_objects) + 1)]
    /\ calls' = Goto(t, "return")
    /\ ConcurrentUnchanged

\* line 196: return self.conversation_contexts[session_id]; the KeyError of a
\* session deleted since line 192 is caught at line 184
GetContextReturn(t) ==
    /\ calls[t].pc = "return"
    /\ calls' = IF context_refs[calls[t].session_id] = Absent
                THEN Fallback(t, InternalError(KeyErrorText(calls[t].session_id)))
                ELSE [calls EXCEPT ![t].pc = "llm",
                                   ![t].context = context_refs[calls[t].session_id][1]]
    /\ UNCHANGED <<context_objects, list_objects, context_refs>>
    /\ ConcurrentUnchanged

\* lines 114-140: the context is read into the prompt and the conversational
\* LLM answers or raises; lines 179-183 turn what it raises into the fallback
CallConversationalLLM(t) ==
    /\ calls[t].pc = "llm"
    /\ \E failure \in {None, UnavailableError} :
          calls' = IF failure # None
                   THEN Fallback(t, failure)
                   ELSE [calls EXCEPT ![t].pc = IF enable_memory THEN "update" ELSE "respond",
                                      ![t].message = Reply,
                                      ![t].context = 0]
    /\ UNCHANGED <<context_objects, list_objects, context_refs>>
    /\ ConcurrentUnchanged

\* line 297 creating the context of a session that is missing, as line 192
\* does, instead of raising
UpdateLookup_GetOrCreate(t) ==
    /\ calls[t].pc = "update"
    /\ context_objects' = IF context_refs[calls[t].session_id] = Absent
                          THEN Append(context_objects, NewContext(list_objects))
                          ELSE context_objects
    /\ list_objects' = IF context_refs[calls[t].session_id] = Absent
                       THEN list_objects \o << <<>>, <<>>, <<>> >>
                       ELSE list_objects
    /\ context_refs' = IF context_refs[calls[t].session_id] = Absent
                       THEN [context_refs EXCEPT ![calls[t].session_id] =
                                Some(Len(context_objects) + 1)]
                       ELSE context_refs
    /\ calls' = [calls EXCEPT ![t].pc = "load", ![t].attr = "previous_queries",
                              ![t].context = context_refs'[calls[t].session_id][1]]
    /\ ConcurrentUnchanged

\* line 297: context = self.conversation_contexts[session_id]; the KeyError of
\* a session deleted since line 196 is caught at line 184
UpdateLookup(t) ==
    /\ calls[t].pc = "update"
    /\ calls' = IF context_refs[calls[t].session_id] = Absent
                THEN Fallback(t, InternalError(KeyErrorText(calls[t].session_id)))
                ELSE [calls EXCEPT ![t].pc = "load", ![t].attr = "previous_queries",
                                   ![t].context = context_refs[calls[t].session_id][1]]
    /\ UNCHANGED <<context_objects, list_objects, context_refs>>
    /\ ConcurrentUnchanged

\* the step after the attribute of step pc has been read
AfterLoad(pc) ==
    CASE pc = "load" -> "append"
      [] pc = "len_load" -> "len"
      [] pc = "slice_load" -> "slice"
      [] pc = "s_q_load" -> "s_q_len"
      [] pc = "s_h_load" -> "s_h_len"
      [] pc = "s_t_load" -> "s_t_test"
      [] pc = "s_l_load" -> "s_l_slice"

\* lines 300-302 and 312-314: context.previous_queries (conversation_history)
\* is read, for append, for len and for the slice
LoadAttribute(t) ==
    /\ calls[t].pc \in {"load", "len_load", "slice_load"}
    /\ calls' = [calls EXCEPT ![t].pc = AfterLoad(calls[t].pc),
                              ![t].list = context_objects[calls[t].context][calls[t].attr]]
    /\ UNCHANGED <<context_objects, list_objects, context_refs>>
    /\ ConcurrentUnchanged

\* what _update_conversation_context appends to the attribute
Entry(t) ==
    IF calls[t].attr = "previous_queries" THEN QuestionOf(t)
    ELSE Interaction(QuestionOf(t), calls[t].message, NoResults)

\* lines 300 and 312: .append(...)
AppendEntry(t) ==
    /\ calls[t].pc = "append"
    /\ list_objects' = [list_objects EXCEPT ![calls[t].list] = Append(@, Entry(t))]
    /\ calls' = Goto(t, "len_load")
    /\ UNCHANGED <<context_objects, context_refs>>
    /\ ConcurrentUnchanged

Cap(attr) == IF attr = "previous_queries" THEN MaxPreviousQueries ELSE MaxHistory

\* the step that follows the work on attribute attr
AfterAttribute(t) ==
    IF calls[t].attr = "previous_queries"
    THEN [calls EXCEPT ![t].pc = "load", ![t].attr = "conversation_history",
                       ![t].list = 0, ![t].sliced = 0]
    ELSE [calls EXCEPT ![t].pc = "respond", ![t].attr = "previous_queries",
                       ![t].context = 0, ![t].list = 0, ![t].sliced = 0]

\* lines 301 and 313: if len(...) > 10 (5)
TestLength(t) ==
    /\ calls[t].pc = "len"
    /\ calls' = IF Len(list_objects[calls[t].list]) > Cap(calls[t].attr)
                THEN Goto(t, "slice_load")
                ELSE AfterAttribute(t)
    /\ UNCHANGED <<context_objects, list_objects, context_refs>>
    /\ ConcurrentUnchanged

\* lines 302 and 314: [-10:] ([-5:]) builds a new list
Slice(t) ==
    /\ calls[t].pc = "slice"
    /\ list_objects' = Append(list_objects, LastN(list_objects[calls[t].list], Cap(calls[t].attr)))
    /\ calls' = [calls EXCEPT ![t].pc = "store", ![t].sliced = Len(list_objects) + 1]
    /\ UNCHANGED <<context_objects, context_refs>>
    /\ ConcurrentUnchanged

\* the assignment of lines 302 and 314 taking the slice again from the list
\* the attribute refers to at that moment
StoreSlice_Resliced(objects, lists, call) ==
    [ context_objects |-> [objects EXCEPT ![call.context][call.attr] = Len(lists) + 1],
      list_objects |-> Append(lists, LastN(lists[objects[call.context][call.attr]], Cap(call.attr))) ]

\* lines 302 and 314: the attribute is bound to the list sliced before
StoreSlice(objects, lists, call) ==
    [ context_objects |-> [objects EXCEPT ![call.context][call.attr] = call.sliced],
      list_objects |-> lists ]

Store(t) ==
    /\ calls[t].pc = "store"
    /\ \E h \in {StoreSlice(context_objects, list_objects, calls[t])} :
          /\ context_objects' = h.context_objects
          /\ list_objects' = h.list_objects
    /\ calls' = AfterAttribute(t)
    /\ UNCHANGED context_refs
    /\ ConcurrentUnchanged

\* lines 152-177: the response is built and returned
Respond(t) ==
    /\ calls[t].pc = "respond"
    /\ calls' = Finish(t, Response(t))
    /\ UNCHANGED <<context_objects, list_objects, context_refs>>
    /\ ConcurrentUnchanged

\* line 442: if session_id in self.conversation_contexts, else return False
ClearCheck(t) ==
    /\ calls[t].pc = "c_check"
    /\ calls' = IF context_refs[calls[t].session_id] = Absent
                THEN Finish(t, [returned |-> FALSE])
                ELSE Goto(t, "c_del")
    /\ UNCHANGED <<context_objects, list_objects, context_refs>>
    /\ ConcurrentUnchanged

\* lines 443-445: del self.conversation_contexts[session_id]; return True.
\* The KeyError of a session deleted since line 442 leaves the method.
ClearDelete(t) ==
    /\ calls[t].pc = "c_del"
    /\ calls' = IF context_refs[calls[t].session_id] = Absent
                THEN Finish(t, [raised |-> KeyErrorText(calls[t].session_id)])
                ELSE Finish(t, [returned |-> TRUE])
    /\ context_refs' = [context_refs EXCEPT ![calls[t].session_id] = Absent]
    /\ UNCHANGED <<context_objects, list_objects>>
    /\ ConcurrentUnchanged

\* lines 450-451: if session_id not in self.conversation_contexts: return None
SummaryCheck(t) ==
    /\ calls[t].pc = "s_check"
    /\ calls' = IF context_refs[calls[t].session_id] = Absent
                THEN Finish(t, [found |-> FALSE])
                ELSE Goto(t, "s_lookup")
    /\ UNCHANGED <<context_objects, list_objects, context_refs>>
    /\ ConcurrentUnchanged

\* line 453: context = self.conversation_contexts[session_id]
SummaryLookup(t) ==
    /\ calls[t].pc = "s_lookup"
    /\ calls' = IF context_refs[calls[t].session_id] = Absent
                THEN Finish(t, [raised |-> KeyErrorText(calls[t].session_id)])
                ELSE [calls EXCEPT ![t].pc = "s_q_load", ![t].attr = "previous_queries",
                                   ![t].context = context_refs[calls[t].session_id][1]]
    /\ UNCHANGED <<context_objects, list_objects, context_refs>>
    /\ ConcurrentUnchanged

\* lines 457-459: context.previous_queries (conversation_history) is read,
\* for len, for the truth test and for the slice
SummaryLoad(t) ==
    /\ calls[t].pc \in {"s_q_load", "s_h_load", "s_t_load", "s_l_load"}
    /\ calls' = [calls EXCEPT ![t].pc = AfterLoad(calls[t].pc),
                              ![t].list = context_objects[calls[t].context][calls[t].attr]]
    /\ UNCHANGED <<context_objects, list_objects, context_refs>>
    /\ ConcurrentUnchanged

\* the call of thread t moves on to load attr at step pc
GotoLoad(t, pc, attr) == [calls EXCEPT ![t].pc = pc, ![t].attr = attr]

\* lines 455-461: one read of the list that was loaded last.
\* line 457: len(context.previous_queries); line 458:
\* len(context.conversation_history); line 459: the truth test of
\* context.previous_queries and then, of the attribute loaded once more, the
\* slice [-3:]; the dict is returned
SummaryRead(t) ==
    /\ calls[t].pc \in {"s_q_len", "s_h_len", "s_t_test", "s_l_slice"}
    /\ calls' =
          CASE calls[t].pc = "s_q_len" ->
                  [GotoLoad(t, "s_h_load", "conversation_history")
                      EXCEPT ![t].queries_count = Len(list_objects[calls[t].list])]
            [] calls[t].pc = "s_h_len" ->
                  [GotoLoad(t, "s_t_load", "previous_queries")
                      EXCEPT ![t].interactions_count = Len(list_objects[calls[t].list])]
            [] calls[t].pc = "s_t_test" ->
                  IF list_objects[calls[t].list] = <<>>
                  THEN Finish(t, [ found |-> TRUE,
                                   queries_count |-> calls[t].queries_count,
                                   interactions_count |-> calls[t].interactions_count,
                                   last_queries |-> <<>> ])
                  ELSE GotoLoad(t, "s_l_load", "previous_queries")
            [] calls[t].pc = "s_l_slice" ->
                  Finish(t, [ found |-> TRUE,
                              queries_count |-> calls[t].queries_count,
                              interactions_count |-> calls[t].interactions_count,
                              last_queries |-> LastN(list_objects[calls[t].list], 3) ])
    /\ UNCHANGED <<context_objects, list_objects, context_refs>>
    /\ ConcurrentUnchanged

ConcurrentNext ==
    \E t \in Threads :
        \/ GetContextCheck(t)
        \/ GetContextCreate(t)
        \/ GetContextReturn(t)
        \/ CallConversationalLLM(t)
        \/ UpdateLookup(t)
        \/ LoadAttribute(t)
        \/ AppendEntry(t)
        \/ TestLength(t)
        \/ Slice(t)
        \/ Store(t)
        \/ Respond(t)
        \/ ClearCheck(t)
        \/ ClearDelete(t)
        \/ SummaryCheck(t)
        \/ SummaryLookup(t)
        \/ SummaryLoad(t)
        \/ SummaryRead(t)

SpecConcurrent == ConcurrentInit /\ [][ConcurrentNext]_vars


\* the list the attribute attr of the stored context of a session refers to
StoredList(session_id, attr) ==
    list_objects[context_objects[context_refs[session_id][1]][attr]]

InList(x, list) == \E i \in 1..Len(list) : list[i] = x

\* both threads have run generate_response for session_id to a recorded
\* answer, on the context that was at its caps when they started
BothRecorded(session_id) ==
    /\ enable_memory
    /\ context_refs[session_id] = Some(1)
    /\ FirstN(list_objects[1], MaxPreviousQueries) = OldQueries
    /\ \A t \in Threads :
          /\ calls[t].op = "generate_response"
          /\ calls[t].session_id = session_id
          /\ calls[t].pc = "done"
          /\ ~calls[t].outcome[1].fallback_used

\* the assignment of a slice binds the attribute to the list sliced earlier
\* and touches no list
StoresEarlierSlice ==
    \A t \in Threads :
        (calls[t].pc = "store" /\ calls'[t].pc # "store")
        => /\ context_objects'[calls[t].context][calls[t].attr] = calls[t].sliced
           /\ list_objects' = list_objects

\* C23: two generate_response calls for one session that is at its caps are
\* not synchronized.  The truncation assigns the slice it took earlier,
\* whatever has been appended since, so an interleaving ends with one of the
\* two questions missing from previous_queries (C23_Witness); the other
\* question is always kept and the list stays at ten entries.
C23_LostUpdate ==
    /\ [][StoresEarlierSlice]_vars
    /\ [](\A s \in SessionIds :
            BothRecorded(s)
            => /\ Len(StoredList(s, "previous_queries")) = MaxPreviousQueries
               /\ \E t \in Threads : InList(QuestionOf(t), StoredList(s, "previous_queries")))

\* both calls completed and recorded, and the question of c2 is missing
C23_Witness ==
    /\ BothRecorded("default")
    /\ InList(QuestionOf("c1"), StoredList("default", "previous_queries"))
    /\ ~InList(QuestionOf("c2"), StoredList("default", "previous_queries"))
    /\ StoredList("default", "previous_queries")[1] = OldQueries[2]


Attributes == {"previous_queries", "conversation_history", "domain_preferences"}

\* the objects the stored context of a session refers to
ObjectsOf(session_id) ==
    { context_objects[context_refs[session_id][1]][a] : a \in Attributes }

\* the stored context of a session by value: Absent, or the contents of its
\* three attributes
ContextValue(refs, objects, lists, session_id) ==
    IF refs[session_id] = Absent THEN Absent
    ELSE Some([a \in Attributes |-> lists[objects[refs[session_id][1]][a]]])

\* a step of a call for one session leaves the entry, the context object and
\* the attribute contents of every other session as they were
OtherSessionsUntouched ==
    \A t \in Threads :
        calls'[t] # calls[t]
        => \A b \in SessionIds \ {calls[t].session_id} :
              /\ context_refs'[b] = context_refs[b]
              /\ ContextValue(context_refs', context_objects', list_objects', b)
                    = ContextValue(context_refs, context_objects, list_objects, b)
              /\ context_refs[b] # Absent
                 => context_objects'[context_refs[b][1]] = context_objects[context_refs[b][1]]

\* C24: session isolation.  Whatever the interleaving of generate_response,
\* clear_conversation_context and get_conversation_summary, a step of a call
\* on one session changes nothing of the context of any other session, and
\* the stored contexts of two sessions are different objects that share no
\* list or dict.
C24_SessionIsolation ==
    /\ [][OtherSessionsUntouched]_vars
    /\ [](\A a, b \in SessionIds :
            (a # b /\ context_refs[a] # Absent /\ context_refs[b] # Absent)
            => /\ context_refs[a] # context_refs[b]
               /\ ObjectsOf(a) \cap ObjectsOf(b) = {}
               /\ Cardinality(ObjectsOf(a)) = 3)

\* one call has recorded its question on "default", the other on "s2", each
\* context holding its own question only
C24_Witness ==
    /\ enable_memory
    /\ \A t \in Threads : calls[t].op = "generate_response" /\ calls[t].pc = "done"
    /\ calls["c1"].session_id = "default" /\ calls["c2"].session_id = "s2"
    /\ context_refs["default"] # Absent /\ context_refs["s2"] # Absent
    /\ StoredList("default", "previous_queries") = <<QuestionOf("c1")>>
    /\ StoredList("s2", "previous_queries") = <<QuestionOf("c2")>>
    /\ Len(StoredList("default", "conversation_history")) = 1
    /\ Len(StoredList("s2", "conversation_history")) = 1


\* the memory update of a call finds its session deleted: the call ends in
\* the fallback response and the session stays absent
ClearedBeforeUpdate ==
    \A t \in Threads :
        ( /\ calls[t].pc = "update"
          /\ context_refs[calls[t].session_id] = Absent
          /\ calls'[t] # calls[t] )
        => /\ calls'[t].pc = "done"
           /\ "raised" \notin DOMAIN calls'[t].outcome[1]
           /\ calls'[t].outcome[1].fallback_used
           /\ calls'[t].outcome[1].confidence_score = 4
           /\ ~calls'[t].outcome[1].context_used
           /\ ~Contains(calls'[t].outcome[1].message, calls[t].message)
           /\ Contains(calls'[t].outcome[1].message,
                       InternalError(KeyErrorText(calls[t].session_id)))
           /\ context_refs' = context_refs

\* C28: when clear_conversation_context(s) runs between the get-or-create of
\* a generate_response call for s and its memory update, the call does not
\* raise: the KeyError of the lookup is caught, the answer of the LLM is
\* dropped, the fallback response (confidence 0.4, context_used false) is
\* returned and s stays absent from the store.
C28_ClearedSessionFallsBack == [][ClearedBeforeUpdate]_vars

\* c2 has cleared "default" while c1 was waiting for the LLM, and c1 has
\* returned the fallback
C28_Witness ==
    /\ calls["c1"].op = "generate_response"
    /\ calls["c1"].session_id = "default"
    /\ calls["c1"].pc = "done"
    /\ calls["c1"].message = Reply
    /\ calls["c1"].outcome[1].fallback_used
    /\ calls["c2"].op = "clear_conversation_context"
    /\ calls["c2"].session_id = "default"
    /\ calls["c2"].outcome = Some([returned |-> TRUE])
    /\ context_refs["default"] = Absent

====
